---- MODULE Spec2Model ----
(***************************************************************************)
(* A model of the retrieval core of context6: the in-memory and the        *)
(* file-backed vector store (src/unnamed/part_011,                          *)
(* src/src/vectorStore/fileVectorStore.ts), the document chunker           *)
(* (src/src/utils/documentChunker.ts) and the semantic search engine       *)
(* (src/src/search/hybridSearch.ts, second half).                          *)
(*                                                                         *)
(* A JavaScript Map is a sequence of [key, entry] records in insertion     *)
(* order.  A rejected promise is an error record; NoError is a resolved    *)
(* one.  The empty string stands for a missing (falsy) metadata.id.        *)
(***************************************************************************)
EXTENDS Integers, Sequences, FiniteSets, TLC

VARIABLES
    store,        \* MemoryVectorStore.store : Map<string, VectorEntry>
    autoSave,     \* FileVectorStore.autoSave
    disk,         \* the file at FileVectorStore.filePath
    bak,          \* the file at the backup path
    atBackup,     \* history: the store and the snapshot when backup() last resolved
    fresh,        \* the store of a second FileVectorStore bound to the same path
    ret,          \* the error the last call rejected with, NoError when it resolved
    op,           \* history: the name of the call that returned last
    hist,         \* history: the arguments of the last call and the store before it
    results,      \* what the last call resolved with when it was a search()
    query,        \* history: the arguments of the last search()
    pc,           \* per in-flight call: the step of persist() it waits for
    data,         \* per in-flight call: the entries persist() serialised
    fd,           \* per in-flight call: the inode fs.writeFile has open
    dir,          \* the directory: the inode at filePath and at filePath.tmp
    inodes,       \* the contents of the files written by fs.writeFile
    seen,         \* history: every list of entries the store has held
    cacheEmbeddings,   \* config.searchOptions.semantic.cacheEmbeddings
    isInitialized,     \* SemanticSearchEngine.isInitialized
    indexedDocuments,  \* SemanticSearchEngine.indexedDocuments : Map<string, IndexedDocument>
    files,             \* BaseSearchEngine.files : Map<string, FileInfo>
    keywordWeight,     \* HybridSearchEngine.keywordWeight
    semanticWeight,    \* HybridSearchEngine.semanticWeight
    keywordFiles,      \* the files Map of a KeywordSearchEngine
    hybridFiles,       \* the files Map of the HybridSearchEngine itself
    embedder,          \* LocalEmbeddingProvider.embedder
    initPromise,       \* LocalEmbeddingProvider.initPromise: the promise it holds
    promises,          \* the state of each promise doInitialize() returned
    calls,             \* per caller: the call of the provider it is in
    loads              \* history: the loads started since the provider was
                       \* constructed or last disposed of

fileVars == <<pc, data, fd, dir, inodes, seen>>

engineVars == <<cacheEmbeddings, isInitialized, indexedDocuments, files>>

hybridVars == <<keywordWeight, semanticWeight, keywordFiles, hybridFiles>>

providerVars == <<embedder, initPromise, promises, calls, loads>>

vars ==
    <<store, autoSave, disk, bak, atBackup, fresh, ret, op, hist, results, query,
      pc, data, fd, dir, inodes, seen,
      cacheEmbeddings, isInitialized, indexedDocuments, files,
      keywordWeight, semanticWeight, keywordFiles, hybridFiles,
      embedder, initPromise, promises, calls, loads>>

----------------------------------------------------------------------------
(* Bounds and input sets *)

MaxBatch == 2
MaxRemoveBatch == 3
MaxTopK == 2
NumCallers == 2
MaxFiles == 2
MaxModified == 2
MaxLimit == 1
MaxFailing == 1
MaxSearchLimit == 3
MaxTextLines == 2
MaxOverlap == 2
MaxContentLength == 3
MaxLoads == 2

Ids == {"a", "b"}
AbsentId == "c"
NoId == ""

MkEntry(id, vector, path) ==
    [vector |-> vector, metadata |-> [id |-> id, path |-> path]]

\* entries a caller may hand to add / update: with and without an id
StoreEntries ==
    {MkEntry(i, <<1, 0>>, "p") : i \in Ids \cup {NoId}} \cup {MkEntry("a", <<0, 1>>, "p")}

BackupEntries == {MkEntry(i, <<1, 0>>, "p") : i \in Ids}

BatchEntries == {MkEntry(i, <<1, 0>>, "p") : i \in Ids \cup {NoId}}

\* the entries of the similarity searches: one per id, two of them at the
\* same angle from <<1, 1>>, spread over two paths
SearchEntries ==
    {MkEntry("a", <<1, 0>>, "p"), MkEntry("b", <<1, 1>>, "q"),
     MkEntry("c", <<0, 1>>, "p"), MkEntry("d", <<-1, 0>>, "q")}

\* query vectors: three of the entries' dimension, the zero vector among
\* them, and one of another dimension
QueryVectors == {<<1, 0>>, <<1, 1>>, <<0, 0>>, <<1>>}

\* minScore: left out, or the fraction num / den
NoMinScore == [given |-> FALSE, num |-> 0, den |-> 1]
MinScores ==
    {NoMinScore, [given |-> TRUE, num |-> 0, den |-> 1], [given |-> TRUE, num |-> 3, den |-> 4]}

\* filter: left out, or a predicate on metadata.path
NoFilter == "none"
Filters == {NoFilter, "p"}

SearchOptions ==
    [topK : 0..MaxTopK, minScore : MinScores, filter : Filters]

SeqsUpTo(S, n) == UNION {[1..k -> S] : k \in 0..n}

----------------------------------------------------------------------------
(* Errors *)

NoError == [kind |-> "none", id |-> ""]
MissingIdError == [kind |-> "Vector entry must have an id", id |-> ""]
NotFoundError(id) == [kind |-> "not found", id |-> id]
NoStoreFileError == [kind |-> "No store file to backup", id |-> ""]
EnoentError == [kind |-> "ENOENT", id |-> ""]
DimensionError == [kind |-> "Vectors must have the same dimension", id |-> ""]

----------------------------------------------------------------------------
(* Map<string, VectorEntry> *)

EmptyMap == <<>>

MapHas(m, k) == \E i \in 1..Len(m) : m[i].key = k

MapIndex(m, k) == CHOOSE i \in 1..Len(m) : m[i].key = k

MapGet(m, k) == m[MapIndex(m, k)].entry

MapSet(m, k, v) ==
    IF MapHas(m, k)
    THEN [m EXCEPT ![MapIndex(m, k)] = [key |-> k, entry |-> v]]
    ELSE Append(m, [key |-> k, entry |-> v])

MapDelete(m, k) == SelectSeq(m, LAMBDA r : r.key # k)

MapKeys(m) == {m[i].key : i \in 1..Len(m)}

MapValues(m) == [i \in 1..Len(m) |-> m[i].entry]

----------------------------------------------------------------------------
(* MemoryVectorStore: each operation gives the store afterwards and the    *)
(* error the returned promise rejects with.                                *)

Outcome(m, e) == [store |-> m, error |-> e]

MemAdd(m, entry) ==
    IF entry.metadata.id = NoId
    THEN Outcome(m, MissingIdError)
    ELSE Outcome(MapSet(m, entry.metadata.id, entry), NoError)

RECURSIVE MemAddBatch(_, _)
MemAddBatch(m, entries) ==
    IF entries = <<>>
    THEN Outcome(m, NoError)
    ELSE LET r == MemAdd(m, Head(entries))
         IN  IF r.error # NoError THEN r ELSE MemAddBatch(r.store, Tail(entries))

MemUpdate(m, id, entry) ==
    IF MapHas(m, id)
    THEN Outcome(MapSet(m, id, entry), NoError)
    ELSE Outcome(m, NotFoundError(id))

MemRemove(m, id) ==
    IF MapHas(m, id)
    THEN Outcome(MapDelete(m, id), NoError)
    ELSE Outcome(m, NotFoundError(id))

\* a removeBatch that checks every id before it removes any
MemRemoveBatchAllOrNothing(m, ids) ==
    LET bad == {i \in 1..Len(ids) :
                   \/ ~MapHas(m, ids[i])
                   \/ \E j \in 1..(i - 1) : ids[j] = ids[i]}
        k == CHOOSE i \in bad : \A j \in bad : i <= j
    IN  IF bad = {}
        THEN Outcome(SelectSeq(m, LAMBDA r : \A i \in 1..Len(ids) : ids[i] # r.key),
                     NoError)
        ELSE Outcome(m, NotFoundError(ids[k]))

RECURSIVE MemRemoveBatch(_, _)
MemRemoveBatch(m, ids) ==
    IF ids = <<>>
    THEN Outcome(m, NoError)
    ELSE LET r == MemRemove(m, Head(ids))
         IN  IF r.error # NoError THEN r ELSE MemRemoveBatch(r.store, Tail(ids))

MemClear(m) == Outcome(EmptyMap, NoError)

MemGet(m, id) == IF MapHas(m, id) THEN {MapGet(m, id)} ELSE {}

MemSize(m) == Len(m)

getAllEntries(m) == MapValues(m)

----------------------------------------------------------------------------------------------------------------------------------------
(* BaseVectorStore: similarity and the search options.  A cosine score     *)
(* dot / (|a| * |b|) is kept exactly as the pair of dot and the squared    *)
(* product of the norms, and scores are compared without rounding.         *)

RECURSIVE SumTo(_, _)
SumTo(f, n) == IF n = 0 THEN 0 ELSE f[n] + SumTo(f, n - 1)

dotProduct(a, b) == SumTo([i \in 1..Len(a) |-> a[i] * b[i]], Len(a))

Score(num, den2) == [num |-> num, den2 |-> den2]

\* cosineSimilarity(a, b) for vectors of one dimension
cosineSimilarity(a, b) ==
    LET normA == dotProduct(a, a)
        normB == dotProduct(b, b)
    IN  IF normA = 0 \/ normB = 0
        THEN Score(0, 1)
        ELSE Score(dotProduct(a, b), normA * normB)

\* x * |x|: keeps the order of x
SignedSquare(x) == IF x < 0 THEN -(x * x) ELSE x * x

\* s.num / sqrt(s.den2) <= t.num / sqrt(t.den2)
ScoreLeq(s, t) == SignedSquare(s.num) * t.den2 <= SignedSquare(t.num) * s.den2

ScoreLess(s, t) == ~ScoreLeq(t, s)

\* result.score >= minScore
AtLeastMinScore(s, minScore) ==
    SignedSquare(s.num * minScore.den) >= SignedSquare(minScore.num) * s.den2

PassesFilter(metadata, filter) == metadata.path = filter

\* Array.prototype.sort((a, b) => b.score - a.score): stable, so a result
\* goes behind the results that score at least as much
RECURSIVE InsertByScore(_, _)
InsertByScore(sorted, r) ==
    IF sorted = <<>>
    THEN <<r>>
    ELSE IF ScoreLess(Head(sorted).score, r.score)
         THEN <<r>> \o sorted
         ELSE <<Head(sorted)>> \o InsertByScore(Tail(sorted), r)

RECURSIVE sortResults(_)
sortResults(rs) ==
    IF rs = <<>>
    THEN <<>>
    ELSE InsertByScore(sortResults(SubSeq(rs, 1, Len(rs) - 1)), rs[Len(rs)])

\* Array.prototype.slice(0, n)
Slice(rs, n) ==
    IF n >= 0
    THEN SubSeq(rs, 1, IF n < Len(rs) THEN n ELSE Len(rs))
    ELSE SubSeq(rs, 1, IF Len(rs) + n > 0 THEN Len(rs) + n ELSE 0)

\* applyOptions cutting the list to topK before it sorts it
applyOptionsCutFirst(rs, options) ==
    LET filtered == IF options.filter # NoFilter
                    THEN SelectSeq(rs, LAMBDA r : PassesFilter(r.entry.metadata, options.filter))
                    ELSE rs
        scored == IF options.minScore.given
                  THEN SelectSeq(filtered, LAMBDA r : AtLeastMinScore(r.score, options.minScore))
                  ELSE filtered
    IN  sortResults(Slice(scored, options.topK))

applyOptions(rs, options) ==
    LET filtered == IF options.filter # NoFilter
                    THEN SelectSeq(rs, LAMBDA r : PassesFilter(r.entry.metadata, options.filter))
                    ELSE rs
        scored == IF options.minScore.given
                  THEN SelectSeq(filtered, LAMBDA r : AtLeastMinScore(r.score, options.minScore))
                  ELSE filtered
    IN  Slice(sortResults(scored), options.topK)

\* MemoryVectorStore.search: cosineSimilarity throws at the first stored
\* vector of another dimension than the query's
MemSearch(m, queryVector, options) ==
    IF \E i \in 1..Len(m) : Len(m[i].entry.vector) # Len(queryVector)
    THEN [results |-> <<>>, error |-> DimensionError]
    ELSE [results |->
              applyOptions(
                  [i \in 1..Len(m) |->
                      [entry |-> m[i].entry,
                       score |-> cosineSimilarity(queryVector, m[i].entry.vector)]],
                  options),
          error |-> NoError]

search(queryVector, options) ==
    /\ results' = MemSearch(store, queryVector, options).results
    /\ ret' = MemSearch(store, queryVector, options).error
    /\ fresh' = EmptyMap
    /\ UNCHANGED <<store, autoSave, disk, bak, atBackup>>

----------------
(* FileVectorStore: the snapshot file.  lastUpdated (Date.now()) is left   *)
(* out of the file's contents: nothing reads it back.                      *)

NoFile == [exists |-> FALSE, version |-> "", entries |-> <<>>]

StoredData(m) ==
    [exists |-> TRUE, version |-> "1.0.0", entries |-> getAllEntries(m)]

\* persist(): stringify, write the temp file, rename it over filePath
PersistFile(m) == StoredData(m)

\* the entries load() accepts from a parsed snapshot
ValidEntry(entry) == entry.metadata.id # NoId

RECURSIVE LoadEntries(_, _)
LoadEntries(m, entries) ==
    IF entries = <<>>
    THEN m
    ELSE LoadEntries(
             IF ValidEntry(Head(entries))
             THEN MemAdd(m, Head(entries)).store
             ELSE m,
             Tail(entries))

\* a load() that adds the snapshot's entries to what the store holds
LoadFileKeeping(m, file) ==
    IF ~file.exists
    THEN Outcome(m, NoError)
    ELSE Outcome(LoadEntries(m, file.entries), NoError)

\* load(): readFile rejects with ENOENT before anything is cleared
LoadFile(m, file) ==
    IF ~file.exists
    THEN Outcome(m, NoError)
    ELSE Outcome(LoadEntries(EmptyMap, file.entries), NoError)

----------------------------------------------------------------------------
(* The calls on one FileVectorStore, issued one after the other *)

NoHist == [ids |-> <<>>, pre |-> EmptyMap]

NoQuery ==
    [queryVector |-> <<>>,
     options |-> [topK |-> 0, minScore |-> NoMinScore, filter |-> NoFilter]]

\* the history variables: which call returned, and for a removeBatch or a
\* restore its arguments and the store it started from
Log(name) ==
    /\ op' = name
    /\ hist' = NoHist
    /\ query' = NoQuery
    /\ UNCHANGED fileVars
    /\ UNCHANGED hybridVars
    /\ UNCHANGED providerVars
    /\ UNCHANGED engineVars

LogBatch(name, ids) ==
    /\ op' = name
    /\ hist' = [ids |-> ids, pre |-> store]
    /\ query' = NoQuery
    /\ UNCHANGED fileVars
    /\ UNCHANGED hybridVars
    /\ UNCHANGED providerVars
    /\ UNCHANGED engineVars

LogSearch(queryVector, options) ==
    /\ op' = "search"
    /\ hist' = [ids |-> <<>>, pre |-> store]
    /\ query' = [queryVector |-> queryVector, options |-> options]
    /\ UNCHANGED fileVars
    /\ UNCHANGED hybridVars
    /\ UNCHANGED providerVars
    /\ UNCHANGED engineVars

\* a mutating call: super.<op>, then persist() when it resolved and autoSave
Mutate(r) ==
    /\ store' = r.store
    /\ disk' = IF r.error = NoError /\ autoSave THEN PersistFile(r.store) ELSE disk
    /\ ret' = r.error
    /\ fresh' = EmptyMap
    /\ results' = <<>>
    /\ UNCHANGED <<autoSave, bak, atBackup>>

add(entry) == Mutate(MemAdd(store, entry))

addBatch(entries) == Mutate(MemAddBatch(store, entries))

update(id, entry) == Mutate(MemUpdate(store, id, entry))

remove(id) == Mutate(MemRemove(store, id))

removeBatch(ids) == Mutate(MemRemoveBatch(store, ids))

clear == Mutate(MemClear(store))

persist ==
    /\ disk' = PersistFile(store)
    /\ ret' = NoError
    /\ fresh' = EmptyMap
    /\ results' = <<>>
    /\ UNCHANGED <<store, autoSave, bak, atBackup>>

load ==
    /\ LET r == LoadFile(store, disk)
       IN  /\ store' = r.store
           /\ ret' = r.error
    /\ fresh' = EmptyMap
    /\ results' = <<>>
    /\ UNCHANGED <<autoSave, disk, bak, atBackup>>

\* new FileVectorStore(filePath).load(), right after persist() resolved
freshLoad ==
    /\ op = "persist"
    /\ ret = NoError
    /\ fresh' = LoadFile(EmptyMap, disk).store
    /\ ret' = NoError
    /\ results' = <<>>
    /\ UNCHANGED <<store, autoSave, disk, bak, atBackup>>

\* backup(): copyFile(filePath, backupPath) gives the backup file's contents
BackupFile(m, file) == file

backup ==
    /\ IF disk.exists
       THEN /\ bak' = BackupFile(store, disk)
            /\ atBackup' = [mem |-> store, disk |-> disk]
            /\ ret' = NoError
       ELSE /\ ret' = NoStoreFileError
            /\ UNCHANGED <<bak, atBackup>>
    /\ fresh' = EmptyMap
    /\ results' = <<>>
    /\ UNCHANGED <<store, autoSave, disk>>

\* restore(backupPath): copyFile(backupPath, filePath), then load()
restore ==
    /\ IF bak.exists
       THEN /\ disk' = bak
            /\ store' = LoadFile(store, bak).store
            /\ ret' = LoadFile(store, bak).error
       ELSE /\ ret' = EnoentError
            /\ UNCHANGED <<store, disk>>
    /\ fresh' = EmptyMap
    /\ results' = <<>>
    /\ UNCHANGED <<autoSave, bak, atBackup>>

----------------------------------------------------------------------------
(* DocumentChunker.  A string is the sequence of its characters, a        *)
(* document path is a name whose character codes charCodes gives.  Line   *)
(* numbers count from 0, as in the code, until createChunk adds 1.        *)

Newline == "\n"

\* the character `, which a TLA+ string cannot hold
Backtick == "BACKTICK"

Fence == <<Backtick, Backtick, Backtick>>

\* content.split("\n")
RECURSIVE split(_)
split(content) ==
    IF \A i \in 1..Len(content) : content[i] # Newline
    THEN <<content>>
    ELSE LET n == CHOOSE i \in 1..Len(content) :
                      /\ content[i] = Newline
                      /\ \A j \in 1..(i - 1) : content[j] # Newline
         IN  <<SubSeq(content, 1, n - 1)>>
                 \o split(SubSeq(content, n + 1, Len(content)))

\* lines.join("\n")
RECURSIVE join(_)
join(lines) ==
    IF lines = <<>>
    THEN <<>>
    ELSE IF Len(lines) = 1
         THEN lines[1]
         ELSE lines[1] \o <<Newline>> \o join(Tail(lines))

\* line.trim()
RECURSIVE trim(_)
trim(line) ==
    IF line # <<>> /\ Head(line) = " "
    THEN trim(Tail(line))
    ELSE IF line # <<>> /\ line[Len(line)] = " "
         THEN trim(SubSeq(line, 1, Len(line) - 1))
         ELSE line

\* trimmedLine.startsWith("```")
startsWithFence(line) == Len(line) >= 3 /\ SubSeq(line, 1, 3) = Fence

\* Math.ceil(text.length / 4)
estimateTokenCount(text) == (Len(text) + 3) \div 4

\* str.charCodeAt(i) for the paths of the model
charCodes == [Aa |-> <<65, 97>>, BB |-> <<66, 66>>, b |-> <<98>>]

\* hash = (hash << 5) - hash + char; hash = hash & hash: a 32-bit two's
\* complement integer, kept as its two 16-bit halves so that it wraps as
\* the code's does
hashStep(hash, char) ==
    LET lo == 31 * hash.lo + char
        hi == 31 * hash.hi + (lo \div 65536)
    IN  [hi |-> hi % 65536, lo |-> lo % 65536]

RECURSIVE hashLoop(_, _, _)
hashLoop(codes, i, hash) ==
    IF i > Len(codes)
    THEN hash
    ELSE hashLoop(codes, i + 1, hashStep(hash, codes[i]))

Digits36 ==
    <<"0", "1", "2", "3", "4", "5", "6", "7", "8", "9", "a", "b", "c", "d",
      "e", "f", "g", "h", "i", "j", "k", "l", "m", "n", "o", "p", "q", "r",
      "s", "t", "u", "v", "w", "x", "y", "z">>

\* n.toString(36)
RECURSIVE toString36(_)
toString36(n) ==
    IF n < 36
    THEN Digits36[n + 1]
    ELSE toString36(n \div 36) \o Digits36[(n % 36) + 1]

\* Math.abs(hash).toString(36); Math.abs(-2^31) is 2^31, "zik0zk"
hashString(str) ==
    LET hash == hashLoop(charCodes[str], 1, [hi |-> 0, lo |-> 0])
    IN  IF hash.hi < 32768
        THEN toString36(hash.hi * 65536 + hash.lo)
        ELSE IF hash.hi = 32768 /\ hash.lo = 0
             THEN "zik0zk"
             ELSE toString36((65535 - hash.hi) * 65536 + (65536 - hash.lo))

createChunk(lines, filePath, title, startLine, endLine, chunkIndex) ==
    [id |-> hashString(filePath) \o "_" \o ToString(chunkIndex),
     content |-> join(lines),
     startLine |-> startLine + 1,
     endLine |-> endLine + 1,
     chunkIndex |-> chunkIndex,
     metadata |-> [filePath |-> filePath, title |-> title, totalChunks |-> 0]]

\* the backwards loop of getOverlap: the index the overlap starts at
RECURSIVE overlapStart(_, _, _, _)
overlapStart(chunk, overlapSize, i, size) ==
    IF i < 0
    THEN Len(chunk) - 1
    ELSE LET sized == size + estimateTokenCount(chunk[i + 1])
         IN  IF sized >= overlapSize
             THEN i
             ELSE overlapStart(chunk, overlapSize, i - 1, sized)

getOverlap(chunk, overlapSize) ==
    IF overlapSize <= 0 \/ chunk = <<>>
    THEN <<>>
    ELSE SubSeq(chunk, overlapStart(chunk, overlapSize, Len(chunk) - 1, 0) + 1,
                Len(chunk))

\* one turn of the loop of extractParagraphs, at line i
paragraphStep(st, line, i, preserveCodeBlocks) ==
    LET trimmedLine == trim(line)
        pushed(endLine) ==
            Append(st.paragraphs,
                   [content |-> st.currentParagraph,
                    startLine |-> st.startLine,
                    endLine |-> endLine])
    IN  IF preserveCodeBlocks /\ startsWithFence(trimmedLine)
        THEN IF ~st.inCodeBlock
             THEN [paragraphs |-> IF st.currentParagraph # <<>>
                                  THEN pushed(i - 1)
                                  ELSE st.paragraphs,
                   currentParagraph |-> <<line>>,
                   startLine |-> i,
                   inCodeBlock |-> TRUE,
                   codeBlockDelimiter |-> trimmedLine]
             ELSE IF trimmedLine = st.codeBlockDelimiter \/ trimmedLine = Fence
                  THEN [paragraphs |->
                            Append(st.paragraphs,
                                   [content |-> Append(st.currentParagraph, line),
                                    startLine |-> st.startLine,
                                    endLine |-> i]),
                        currentParagraph |-> <<>>,
                        startLine |-> st.startLine,
                        inCodeBlock |-> FALSE,
                        codeBlockDelimiter |-> <<>>]
                  ELSE [st EXCEPT !.currentParagraph = Append(@, line)]
        ELSE IF ~st.inCodeBlock /\ trimmedLine = <<>>
             THEN IF st.currentParagraph # <<>>
                  THEN [st EXCEPT !.paragraphs = pushed(i - 1),
                                  !.currentParagraph = <<>>]
                  ELSE st
             ELSE [st EXCEPT !.startLine = IF st.currentParagraph = <<>> THEN i ELSE @,
                             !.currentParagraph = Append(@, line)]

RECURSIVE paragraphLoop(_, _, _, _)
paragraphLoop(lines, preserveCodeBlocks, i, st) ==
    IF i >= Len(lines)
    THEN st
    ELSE paragraphLoop(lines, preserveCodeBlocks, i + 1,
                       paragraphStep(st, lines[i + 1], i, preserveCodeBlocks))

extractParagraphs(lines, preserveCodeBlocks) ==
    LET st == paragraphLoop(lines, preserveCodeBlocks, 0,
                            [paragraphs |-> <<>>,
                             currentParagraph |-> <<>>,
                             startLine |-> 0,
                             inCodeBlock |-> FALSE,
                             codeBlockDelimiter |-> <<>>])
    IN  IF st.currentParagraph # <<>>
        THEN Append(st.paragraphs,
                    [content |-> st.currentParagraph,
                     startLine |-> st.startLine,
                     endLine |-> Len(lines) - 1])
        ELSE st.paragraphs

RECURSIVE splitLoop(_, _, _, _)
splitLoop(paragraph, maxSize, i, st) ==
    IF i >= Len(paragraph.content)
    THEN st
    ELSE LET line == paragraph.content[i + 1]
             lineSize == estimateTokenCount(line)
             cut == IF st.currentSize + lineSize > maxSize /\ st.currentChunk # <<>>
                    THEN [chunks |->
                              Append(st.chunks,
                                     [lines |-> st.currentChunk,
                                      startLine |-> st.chunkStartLine,
                                      endLine |-> paragraph.startLine + i - 1]),
                          currentChunk |-> <<>>,
                          currentSize |-> 0,
                          chunkStartLine |-> paragraph.startLine + i]
                    ELSE st
         IN  splitLoop(paragraph, maxSize, i + 1,
                       [cut EXCEPT !.currentChunk = Append(@, line),
                                   !.currentSize = @ + lineSize])

splitLargeParagraph(paragraph, maxSize) ==
    LET st == splitLoop(paragraph, maxSize, 0,
                        [chunks |-> <<>>,
                         currentChunk |-> <<>>,
                         currentSize |-> 0,
                         chunkStartLine |-> paragraph.startLine])
    IN  IF st.currentChunk # <<>>
        THEN Append(st.chunks,
                    [lines |-> st.currentChunk,
                     startLine |-> st.chunkStartLine,
                     endLine |-> paragraph.endLine])
        ELSE st.chunks

\* the chunks of the sub-chunks of a large paragraph, numbered from chunkIndex
subChunks(subs, filePath, title, chunkIndex) ==
    [k \in 1..Len(subs) |->
        createChunk(subs[k].lines, filePath, title,
                    subs[k].startLine, subs[k].endLine, chunkIndex + k - 1)]

\* the chunk chunkByParagraphs and chunkBySize emit for the current buffer
bufferChunk(st, filePath, title, endLine) ==
    createChunk(st.currentChunk, filePath, title, st.startLine, endLine,
                st.chunkIndex)

\* one turn of the loop of chunkByParagraphs
chunkStep(st, paragraph, filePath, title, options) ==
    LET paragraphSize == estimateTokenCount(join(paragraph.content))
        flushed == bufferChunk(st, filePath, title,
                               st.startLine + Len(st.currentChunk) - 1)
    IN  IF paragraphSize > options.maxChunkSize
        THEN LET emptied == IF st.currentChunk # <<>>
                            THEN [st EXCEPT !.chunks = Append(@, flushed),
                                            !.chunkIndex = @ + 1,
                                            !.currentChunk = <<>>,
                                            !.currentSize = 0]
                            ELSE st
                 subs == splitLargeParagraph(paragraph, options.maxChunkSize)
             IN  [emptied EXCEPT
                     !.chunks = @ \o subChunks(subs, filePath, title, emptied.chunkIndex),
                     !.chunkIndex = @ + Len(subs),
                     !.startLine = paragraph.endLine + 1]
        ELSE IF st.currentSize + paragraphSize > options.maxChunkSize
             THEN LET overlap == getOverlap(st.currentChunk, options.overlapSize)
                  IN  [chunks |-> Append(st.chunks, flushed),
                       chunkIndex |-> st.chunkIndex + 1,
                       currentChunk |-> overlap \o paragraph.content,
                       currentSize |-> estimateTokenCount(join(overlap \o paragraph.content)),
                       startLine |-> paragraph.startLine - Len(overlap)]
             ELSE [st EXCEPT !.currentChunk = @ \o paragraph.content,
                             !.currentSize = @ + paragraphSize]

RECURSIVE chunkLoop(_, _, _, _, _, _)
chunkLoop(paragraphs, k, st, filePath, title, options) ==
    IF k > Len(paragraphs)
    THEN st
    ELSE chunkLoop(paragraphs, k + 1,
                   chunkStep(st, paragraphs[k], filePath, title, options),
                   filePath, title, options)

NoChunks ==
    [chunks |-> <<>>, chunkIndex |-> 0, currentChunk |-> <<>>,
     currentSize |-> 0, startLine |-> 0]

\* the chunks as createChunk made them, totalChunks not stamped
withTotalChunksSkipped(chunks) == chunks

\* chunks.map(chunk => ({...chunk, metadata: {..., totalChunks: chunks.length}}))
withTotalChunks(chunks) ==
    [k \in 1..Len(chunks) |->
        [chunks[k] EXCEPT !.metadata.totalChunks = Len(chunks)]]

chunkByParagraphs(lines, filePath, title, options) ==
    LET st == chunkLoop(extractParagraphs(lines, options.preserveCodeBlocks), 1,
                        NoChunks, filePath, title, options)
    IN  withTotalChunks(
            IF st.currentChunk # <<>>
            THEN Append(st.chunks,
                        bufferChunk(st, filePath, title,
                                    st.startLine + Len(st.currentChunk) - 1))
            ELSE st.chunks)

\* one turn of the loop of chunkBySize, at line i
sizeStep(st, line, i, filePath, title, options) ==
    LET lineSize == estimateTokenCount(line)
        overlap == getOverlap(st.currentChunk, options.overlapSize)
        cut == IF st.currentSize + lineSize > options.maxChunkSize
                  /\ st.currentChunk # <<>>
               THEN [chunks |-> Append(st.chunks, bufferChunk(st, filePath, title, i - 1)),
                     chunkIndex |-> st.chunkIndex + 1,
                     currentChunk |-> overlap,
                     currentSize |-> estimateTokenCount(join(overlap)),
                     startLine |-> i - Len(overlap)]
               ELSE st
    IN  [cut EXCEPT !.currentChunk = Append(@, line),
                    !.currentSize = @ + lineSize]

RECURSIVE sizeLoop(_, _, _, _, _, _)
sizeLoop(lines, i, st, filePath, title, options) ==
    IF i >= Len(lines)
    THEN st
    ELSE sizeLoop(lines, i + 1,
                  sizeStep(st, lines[i + 1], i, filePath, title, options),
                  filePath, title, options)

chunkBySize(lines, filePath, title, options) ==
    LET st == sizeLoop(lines, 0, NoChunks, filePath, title, options)
    IN  withTotalChunks(
            IF st.currentChunk # <<>>
            THEN Append(st.chunks, bufferChunk(st, filePath, title, Len(lines) - 1))
            ELSE st.chunks)

chunkDocument(content, filePath, title, options) ==
    IF options.chunkByParagraph
    THEN chunkByParagraphs(split(content), filePath, title, options)
    ELSE chunkBySize(split(content), filePath, title, options)

----------------------------------------------------------------------------
(* SemanticSearchEngine.  indexedDocuments and files are Maps read only   *)
(* by key: functions from the paths they hold.  The embedding provider is *)
(* outside the program: whether it is ready and whether a call of it      *)
(* rejects are inputs of each engine call, and the vector it gives for a  *)
(* text is a fixed function of the text.                                   *)

\* config.searchOptions.semantic.batchSize, which the engine hands to the
\* chunker as maxChunkSize
batchSize == 1

chunkerOptions ==
    [maxChunkSize |-> batchSize,
     overlapSize |-> 100,
     chunkByParagraph |-> TRUE,
     preserveCodeBlocks |-> TRUE]

Paths == {"Aa", "b"}

\* the paths of a larger corpus
CorpusPaths == Paths \cup {"BB"}

NoContent == <<>>
OneChunkContent == <<"y", "y">>
TwoChunkContent == <<"x", "x", Newline, Newline, "y", "y">>

Contents == {NoContent, OneChunkContent, TwoChunkContent}

\* the contents of the documents handed to a HybridSearchEngine: one with a
\* single "x", one with four "x" and three "y"
OneX == <<"x">>
FourXThreeY == <<"x", "x", "x", "x", "y", "y", "y">>
HybridContents == {NoContent, OneX, FourXThreeY}

Titles == {<<"t">>}

FileInfos ==
    [path : Paths, title : Titles, content : Contents, modified : 1..MaxModified]

\* this.documentChunker, built by the constructor: the chunks it gives for
\* each document
documentChunker ==
    [content \in Contents \cup HybridContents, filePath \in CorpusPaths,
     title \in Titles |->
        chunkDocument(content, filePath, title, chunkerOptions)]

Queries == {<<"x">>, <<"y">>}

ProviderNotReadyError ==
    [kind |-> "Embedding provider failed to initialize", id |-> ""]

\* the provider's vector for a text: how many x it has, less how many z,
\* and how many y
embedding(text) ==
    <<Len(SelectSeq(text, LAMBDA c : c = "x")) - Len(SelectSeq(text, LAMBDA c : c = "z")),
      Len(SelectSeq(text, LAMBDA c : c = "y"))>>

NoDocuments == [path \in {} |-> {}]

\* Map.prototype.set and delete on a Map read by key
DocSet(m, k, v) == [path \in DOMAIN m \cup {k} |-> IF path = k THEN v ELSE m[path]]
DocDelete(m, k) == [path \in DOMAIN m \ {k} |-> m[path]]

\* a call on the engine's vector store: a FileVectorStore with autoSave
\* when cacheEmbeddings, a MemoryVectorStore otherwise
StoreCall(r, file) ==
    [store |-> r.store,
     disk |-> IF r.error = NoError /\ cacheEmbeddings
              THEN PersistFile(r.store)
              ELSE file,
     error |-> r.error]

\* initialize(): load() of the cache file, then isReady()
initialize(ready) ==
    IF isInitialized
    THEN [store |-> store, isInitialized |-> TRUE, error |-> NoError]
    ELSE LET loaded == IF cacheEmbeddings
                       THEN LoadFile(store, disk)
                       ELSE Outcome(store, NoError)
         IN  IF loaded.error # NoError
             THEN [store |-> loaded.store, isInitialized |-> FALSE,
                   error |-> loaded.error]
             ELSE IF ~ready
                  THEN [store |-> loaded.store, isInitialized |-> FALSE,
                        error |-> ProviderNotReadyError]
                  ELSE [store |-> loaded.store, isInitialized |-> TRUE,
                        error |-> NoError]

removeFileVectors(e, filePath) ==
    IF filePath \in DOMAIN e.indexedDocuments
    THEN LET chunks == e.indexedDocuments[filePath].chunks
             chunkIds == [k \in 1..Len(chunks) |-> chunks[k].id]
         IN  StoreCall(MemRemoveBatch(e.store, chunkIds), e.disk)
    ELSE [store |-> e.store, disk |-> e.disk, error |-> NoError]

\* the check of indexFile taking only an older file for unchanged
unchangedIfOlder(e, file) ==
    /\ file.path \in DOMAIN e.indexedDocuments
    /\ e.indexedDocuments[file.path].lastModified > file.modified

\* existingDoc && existingDoc.lastModified >= file.modified
unchanged(e, file) ==
    /\ file.path \in DOMAIN e.indexedDocuments
    /\ e.indexedDocuments[file.path].lastModified >= file.modified

\* the engine state had the old vectors been removed before embedBatch
embedRejectedAfterRemoval(e, file) ==
    [e EXCEPT !.store = removeFileVectors(e, file.path).store,
              !.disk = removeFileVectors(e, file.path).disk]

\* the engine state when embedBatch rejects: chunkDocument changed nothing
\* and removeFileVectors has not been called yet
embedRejected(e, file) == e

\* indexFile(file) on the engine state e; embedOk tells whether embedBatch
\* resolves.  e.log is history: what became of each file handed in.
indexFile(e, file, embedOk) ==
    LET logged(f, outcome) ==
            [f EXCEPT !.log = Append(@, [path |-> file.path, outcome |-> outcome])]
    IN  IF file.content = NoContent
        THEN logged(e, "no content")
        ELSE IF unchanged(e, file)
             THEN logged(e, "unchanged")
             ELSE LET chunks == documentChunker[file.content, file.path, file.title]
                      vectorEntries ==
                          [k \in 1..Len(chunks) |->
                              MkEntry(chunks[k].id, embedding(chunks[k].content),
                                      file.path)]
                      removed == removeFileVectors(e, file.path)
                      added == StoreCall(MemAddBatch(removed.store, vectorEntries),
                                         removed.disk)
                  IN  IF ~embedOk
                      THEN logged(embedRejected(e, file), "embedding failed")
                      ELSE IF removed.error # NoError
                           THEN logged([e EXCEPT !.store = removed.store,
                                                 !.disk = removed.disk],
                                       "failed")
                           ELSE IF added.error # NoError
                                THEN logged([e EXCEPT !.store = added.store,
                                                      !.disk = added.disk],
                                            "failed")
                                ELSE logged(
                                         [e EXCEPT
                                             !.store = added.store,
                                             !.disk = added.disk,
                                             !.indexedDocuments =
                                                 DocSet(@, file.path,
                                                        [filePath |-> file.path,
                                                         chunks |-> chunks,
                                                         lastModified |-> file.modified]),
                                             !.files = DocSet(@, file.path, file)],
                                         "indexed")

\* the loop of index(files); the embedBatch calls for the files at the
\* positions in failing reject
RECURSIVE indexLoop(_, _, _, _)
indexLoop(e, fs, k, failing) ==
    IF k > Len(fs)
    THEN e
    ELSE indexLoop(indexFile(e, fs[k], k \notin failing), fs, k + 1, failing)

\* the engine state a call works on; error is what the call rejects with
Engine(m) ==
    [store |-> m, disk |-> disk, indexedDocuments |-> indexedDocuments,
     files |-> files, log |-> <<>>, error |-> NoError]

\* an engine call that changes the index returns: init is what its
\* initialize() gave and e the engine state its body left, the state
\* after initialize() when that threw
EngineCall(init, e) ==
    /\ isInitialized' = init.isInitialized
    /\ store' = e.store
    /\ disk' = e.disk
    /\ indexedDocuments' = e.indexedDocuments
    /\ files' = e.files
    /\ ret' = IF init.error # NoError THEN init.error ELSE e.error
    /\ hist' = [log |-> e.log]
    /\ results' = <<>>
    /\ fresh' = EmptyMap
    /\ UNCHANGED <<autoSave, bak, atBackup, cacheEmbeddings>>

index(fs, ready, failing) ==
    LET init == initialize(ready)
    IN  EngineCall(init,
                   IF init.error = NoError
                   THEN indexLoop(Engine(init.store), fs, 1, failing)
                   ELSE Engine(init.store))

semanticUpdate(file, ready, embedOk) ==
    LET init == initialize(ready)
    IN  EngineCall(init,
                   IF init.error = NoError
                   THEN indexFile(Engine(init.store), file, embedOk)
                   ELSE Engine(init.store))

\* remove(filePath): a rejected removeBatch rejects the call and leaves
\* the two Maps as they were
removeDocument(e, filePath) ==
    LET removed == removeFileVectors(e, filePath)
    IN  IF removed.error # NoError
        THEN [e EXCEPT !.store = removed.store, !.disk = removed.disk,
                       !.error = removed.error]
        ELSE [e EXCEPT !.store = removed.store,
                       !.disk = removed.disk,
                       !.indexedDocuments = DocDelete(@, filePath),
                       !.files = DocDelete(@, filePath)]

semanticRemove(filePath, ready) ==
    LET init == initialize(ready)
    IN  EngineCall(init,
                   IF init.error = NoError
                   THEN removeDocument(Engine(init.store), filePath)
                   ELSE Engine(init.store))

\* the grouping loop keeping the lowest score of a file's chunks
RECURSIVE groupByFileLowest(_, _, _)
groupByFileLowest(searchResults, k, fileResults) ==
    IF k > Len(searchResults)
    THEN fileResults
    ELSE LET result == searchResults[k]
             filePath == result.entry.metadata.path
             at == {i \in 1..Len(fileResults) : fileResults[i].file.path = filePath}
         IN  IF filePath \notin DOMAIN files
             THEN groupByFileLowest(searchResults, k + 1, fileResults)
             ELSE IF at = {}
                  THEN groupByFileLowest(searchResults, k + 1,
                                         Append(fileResults,
                                                [file |-> files[filePath],
                                                 score |-> result.score]))
                  ELSE LET i == CHOOSE i \in at : TRUE
                       IN  groupByFileLowest(
                               searchResults, k + 1,
                               IF ScoreLess(result.score, fileResults[i].score)
                               THEN [fileResults EXCEPT ![i].score = result.score]
                               ELSE fileResults)

\* the grouping loop of search(): one result per file the engine holds,
\* with the highest score of its chunks, in the order the files first appear
RECURSIVE groupByFile(_, _, _)
groupByFile(searchResults, k, fileResults) ==
    IF k > Len(searchResults)
    THEN fileResults
    ELSE LET result == searchResults[k]
             filePath == result.entry.metadata.path
             at == {i \in 1..Len(fileResults) : fileResults[i].file.path = filePath}
         IN  IF filePath \notin DOMAIN files
             THEN groupByFile(searchResults, k + 1, fileResults)
             ELSE IF at = {}
                  THEN groupByFile(searchResults, k + 1,
                                   Append(fileResults,
                                          [file |-> files[filePath],
                                           score |-> result.score]))
                  ELSE LET i == CHOOSE i \in at : TRUE
                       IN  groupByFile(
                               searchResults, k + 1,
                               IF ScoreLess(fileResults[i].score, result.score)
                               THEN [fileResults EXCEPT ![i].score = result.score]
                               ELSE fileResults)

\* search({query, limit}); embedOk tells whether embed(query) resolves
semanticSearchResults(init, queryText, limit, embedOk) ==
    LET found == MemSearch(init.store, embedding(queryText),
                           [topK |-> limit * 2, minScore |-> NoMinScore,
                            filter |-> NoFilter])
    IN  IF init.error # NoError \/ ~embedOk \/ found.error # NoError
        THEN <<>>
        ELSE Slice(sortResults(groupByFile(found.results, 1, <<>>)), limit)

semanticSearch(queryText, limit, ready, embedOk) ==
    LET init == initialize(ready)
    IN  /\ isInitialized' = init.isInitialized
        /\ store' = init.store
        /\ ret' = init.error
        /\ results' = semanticSearchResults(init, queryText, limit, embedOk)
        /\ hist' = [log |-> <<>>]
        /\ fresh' = EmptyMap
        /\ UNCHANGED <<autoSave, disk, bak, atBackup, cacheEmbeddings,
                       indexedDocuments, files>>

\* the process ends and a new engine is constructed over the same cache file
restart ==
    /\ store' = EmptyMap
    /\ isInitialized' = FALSE
    /\ indexedDocuments' = NoDocuments
    /\ files' = NoDocuments
    /\ ret' = NoError
    /\ hist' = NoHist
    /\ results' = <<>>
    /\ fresh' = EmptyMap
    /\ UNCHANGED <<autoSave, disk, bak, atBackup, cacheEmbeddings>>

\* the history variables of an engine call: its name, and for index() the
\* paths of the files handed in
LogEngine(name) ==
    /\ op' = name
    /\ query' = NoQuery
    /\ UNCHANGED fileVars
    /\ UNCHANGED hybridVars
    /\ UNCHANGED providerVars

LogFiles(name, fs) ==
    /\ op' = name
    /\ query' = [files |-> [k \in 1..Len(fs) |-> fs[k].path]]
    /\ UNCHANGED fileVars
    /\ UNCHANGED hybridVars
    /\ UNCHANGED providerVars

\* the history variables of a search: the query and the limit asked for
LogQuery(name, queryText, limit) ==
    /\ op' = name
    /\ query' = [query |-> queryText, limit |-> limit]
    /\ UNCHANGED fileVars
    /\ UNCHANGED hybridVars
    /\ UNCHANGED providerVars

\* the history variables of a call for one file: the file handed in
LogFile(name, file) ==
    /\ op' = name
    /\ query' = [file |-> file]
    /\ UNCHANGED fileVars
    /\ UNCHANGED hybridVars
    /\ UNCHANGED providerVars

InitEngine ==
    /\ isInitialized = FALSE
    /\ indexedDocuments = NoDocuments
    /\ files = NoDocuments

----------------------------------------------------------------------------
(* persist() step by step, for calls in flight together on one store.     *)
(* Each mutating call changes the Map at once and then awaits persist():  *)
(* fs.mkdir, then getAllEntries and JSON.stringify, then fs.writeFile of  *)
(* filePath.tmp (open with truncation, write, close), then fs.rename.     *)
(* The file-system calls of different calls complete in any order.  A     *)
(* file's contents are the entries written and whether they make up one   *)
(* whole JSON document.                                                    *)

Callers == 1..NumCallers

NoInode == 0

EmptyFile == [entries |-> <<>>, whole |-> FALSE]

\* writing text at offset 0 of a file that was not truncated since: the
\* tail of what was there stays behind the new text
Overwrite(entries, old) ==
    IF Len(old.entries) > Len(entries)
    THEN [entries |-> entries \o SubSeq(old.entries, Len(entries) + 1, Len(old.entries)),
          whole |-> FALSE]
    ELSE [entries |-> entries, whole |-> TRUE]

\* add(entry) up to the first await of persist()
startAdd(p, entry) ==
    /\ pc[p] = "idle"
    /\ autoSave
    /\ MemAdd(store, entry).error = NoError
    /\ store' = MemAdd(store, entry).store
    /\ seen' = seen \cup {getAllEntries(MemAdd(store, entry).store)}
    /\ pc' = [pc EXCEPT ![p] = "mkdir"]
    /\ UNCHANGED <<data, fd, dir, inodes>>

\* clear() up to the first await of persist()
startClear(p) ==
    /\ pc[p] = "idle"
    /\ autoSave
    /\ store' = MemClear(store).store
    /\ seen' = seen \cup {<<>>}
    /\ pc' = [pc EXCEPT ![p] = "mkdir"]
    /\ UNCHANGED <<data, fd, dir, inodes>>

\* fs.mkdir returned: the entries are read and serialised
mkdirDone(p) ==
    /\ pc[p] = "mkdir"
    /\ data' = [data EXCEPT ![p] = getAllEntries(store)]
    /\ pc' = [pc EXCEPT ![p] = "open"]
    /\ UNCHANGED <<store, fd, dir, inodes, seen>>

\* fs.writeFile opened filePath.tmp: created, or truncated if it was there
openTemp(p) ==
    /\ pc[p] = "open"
    /\ LET inode == IF dir.tmp = NoInode THEN p ELSE dir.tmp
       IN  /\ dir' = [dir EXCEPT !.tmp = inode]
           /\ inodes' = [inodes EXCEPT ![inode] = EmptyFile]
           /\ fd' = [fd EXCEPT ![p] = inode]
    /\ pc' = [pc EXCEPT ![p] = "write"]
    /\ UNCHANGED <<store, data, seen>>

\* fs.writeFile wrote the text and closed the file
writeTemp(p) ==
    /\ pc[p] = "write"
    /\ inodes' = [inodes EXCEPT ![fd[p]] = Overwrite(data[p], inodes[fd[p]])]
    /\ pc' = [pc EXCEPT ![p] = "rename"]
    /\ UNCHANGED <<store, data, fd, dir, seen>>

\* fs.rename(filePath.tmp, filePath): rejects with ENOENT when there is no
\* filePath.tmp
renameTemp(p) ==
    /\ pc[p] = "rename"
    /\ IF dir.tmp = NoInode
       THEN /\ pc' = [pc EXCEPT ![p] = "ENOENT"]
            /\ UNCHANGED dir
       ELSE /\ pc' = [pc EXCEPT ![p] = "resolved"]
            /\ dir' = [file |-> dir.tmp, tmp |-> NoInode]
    /\ UNCHANGED <<store, data, fd, inodes, seen>>

----------------------------------------------------------------------------
(* Numbers of the search scores.  A score or a weight is an exact         *)
(* fraction num / den in lowest terms; den = 0 is NaN, the result of 0/0. *)
(* Rounding is left out.                                                   *)

RECURSIVE GCD(_, _)
GCD(a, b) == IF b = 0 THEN a ELSE GCD(b, a % b)

Abs(x) == IF x < 0 THEN -x ELSE x

Rat(n, d) ==
    LET g == GCD(Abs(n), d)
    IN  [num |-> n \div g, den |-> d \div g]

NaN == [num |-> 0, den |-> 0]

IsNaN(a) == a.den = 0

Zero == Rat(0, 1)
One == Rat(1, 1)

RatAdd(a, b) ==
    IF IsNaN(a) \/ IsNaN(b)
    THEN NaN
    ELSE Rat(a.num * b.den + b.num * a.den, a.den * b.den)

RatSub(a, b) ==
    IF IsNaN(a) \/ IsNaN(b)
    THEN NaN
    ELSE Rat(a.num * b.den - b.num * a.den, a.den * b.den)

RatMul(a, b) ==
    IF IsNaN(a) \/ IsNaN(b)
    THEN NaN
    ELSE Rat(a.num * b.num, a.den * b.den)

\* a / b for b >= 0: 0 / 0 is NaN
RatDiv(a, b) ==
    IF IsNaN(a) \/ IsNaN(b) \/ b.num = 0
    THEN NaN
    ELSE Rat(a.num * b.den, a.den * b.num)

RatAbs(a) == [a EXCEPT !.num = Abs(@)]

\* a < b and a <= b; a comparison with NaN is false
RatLess(a, b) == ~IsNaN(a) /\ ~IsNaN(b) /\ a.num * b.den < b.num * a.den
RatLeq(a, b) == ~IsNaN(a) /\ ~IsNaN(b) /\ a.num * b.den <= b.num * a.den

----------------------------------------------------------------------------
(* HybridSearchEngine: the weights its constructor sets, and mergeResults *)
(* on the result lists of its two engines.                                 *)

\* config.searchOptions.hybrid, absent or with its two weights
NoHybrid == [given |-> FALSE, keywordWeight |-> Zero, semanticWeight |-> Zero]

\* the constructor's keywordWeight and semanticWeight
weights(hybridConfig) ==
    LET keyword == IF hybridConfig.given THEN hybridConfig.keywordWeight ELSE Rat(7, 10)
        semantic == IF hybridConfig.given THEN hybridConfig.semanticWeight ELSE Rat(3, 10)
        weightSum == RatAdd(keyword, semantic)
    IN  IF RatLess(Rat(1, 1000), RatAbs(RatSub(weightSum, One)))
        THEN [keywordWeight |-> RatDiv(keyword, weightSum),
              semanticWeight |-> RatDiv(semantic, weightSum)]
        ELSE [keywordWeight |-> keyword, semanticWeight |-> semantic]

\* a score field that was never set
Undefined == [num |-> 0, den |-> -1]

\* score ?? 0
OrZero(score) == IF score = Undefined THEN Zero ELSE score

\* mergedMatches.slice(0, 5) after the secondary matches with a new text
mergeMatches(primaryMatches, secondaryMatches) ==
    Slice(primaryMatches
              \o SelectSeq(secondaryMatches,
                           LAMBDA m : \A k \in 1..Len(primaryMatches) :
                                          primaryMatches[k].text # m.text),
          5)

\* where resultMap holds the path, 0 when it does not
ResultIndex(resultMap, filePath) ==
    IF \E i \in 1..Len(resultMap) : resultMap[i].file.path = filePath
    THEN CHOOSE i \in 1..Len(resultMap) : resultMap[i].file.path = filePath
    ELSE 0

\* the first loop of mergeResults
RECURSIVE mergeKeyword(_, _, _)
mergeKeyword(resultMap, keywordResults, k) ==
    IF k > Len(keywordResults)
    THEN resultMap
    ELSE LET result == keywordResults[k]
             i == ResultIndex(resultMap, result.file.path)
         IN  mergeKeyword(
                 IF i # 0
                 THEN [resultMap EXCEPT
                          ![i].matches = mergeMatches(@, result.matches),
                          ![i].keywordScore = result.score]
                 ELSE Append(resultMap,
                             [file |-> result.file,
                              score |-> result.score,
                              matches |-> result.matches,
                              keywordScore |-> result.score,
                              semanticScore |-> Undefined]),
                 keywordResults, k + 1)

\* the second loop of mergeResults
RECURSIVE mergeSemantic(_, _, _)
mergeSemantic(resultMap, semanticResults, k) ==
    IF k > Len(semanticResults)
    THEN resultMap
    ELSE LET result == semanticResults[k]
             i == ResultIndex(resultMap, result.file.path)
         IN  mergeSemantic(
                 IF i # 0
                 THEN [resultMap EXCEPT
                          ![i].matches = mergeMatches(result.matches, @),
                          ![i].semanticScore = result.score]
                 ELSE Append(resultMap,
                             [file |-> result.file,
                              score |-> result.score,
                              matches |-> result.matches,
                              keywordScore |-> Undefined,
                              semanticScore |-> result.score]),
                 semanticResults, k + 1)

\* hybridResults.sort((a, b) => b.score - a.score): stable; a difference
\* that is NaN counts as 0
RECURSIVE InsertByRat(_, _)
InsertByRat(sorted, r) ==
    IF sorted = <<>>
    THEN <<r>>
    ELSE IF RatLess(Head(sorted).score, r.score)
         THEN <<r>> \o sorted
         ELSE <<Head(sorted)>> \o InsertByRat(Tail(sorted), r)

RECURSIVE sortByScore(_)
sortByScore(rs) ==
    IF rs = <<>>
    THEN <<>>
    ELSE InsertByRat(sortByScore(SubSeq(rs, 1, Len(rs) - 1)), rs[Len(rs)])

hybridScore(result, kw, sw) ==
    RatAdd(RatMul(OrZero(result.keywordScore), kw),
           RatMul(OrZero(result.semanticScore), sw))

mergeResults(keywordResults, semanticResults, limit, kw, sw) ==
    LET resultMap == mergeSemantic(mergeKeyword(<<>>, keywordResults, 1),
                                   semanticResults, 1)
        hybridResults ==
            [i \in 1..Len(resultMap) |->
                [file |-> resultMap[i].file,
                 score |-> hybridScore(resultMap[i], kw, sw),
                 matches |-> resultMap[i].matches]]
    IN  Slice(sortByScore(hybridResults), limit)

----------------------------------------------------------------------------
(* KeywordSearchEngine: its files Map in insertion order, and search with *)
(* findMatches and calculateScore.  A text is its sequence of characters. *)

\* the letter I with a dot above (U+0130) and the combining dot above (U+0307)
DottedI == "U+0130"
CombiningDot == "U+0307"

\* String.prototype.toLowerCase, on the letters the texts use: the lower
\* case of U+0130 is the two code units i and U+0307
toLowerCase(text) ==
    LET dotted(k) == Cardinality({j \in 1..k : text[j] = DottedI})
        \* the letter of text whose lower case holds code unit n
        letter(n) == CHOOSE k \in 1..Len(text) :
                         k - 1 + dotted(k - 1) < n /\ n <= k + dotted(k)
    IN  [n \in 1..(Len(text) + dotted(Len(text))) |->
            LET k == letter(n)
            IN  IF text[k] = "X"
                THEN "x"
                ELSE IF text[k] = DottedI
                     THEN IF n = k + dotted(k - 1) THEN "i" ELSE CombiningDot
                     ELSE text[k]]

\* text.indexOf(searchString, position): -1 when it does not occur from there
indexOf(text, searchString, position) ==
    LET occurs(p) == SubSeq(text, p + 1, p + Len(searchString)) = searchString
        from == {p \in position..(Len(text) - Len(searchString)) : occurs(p)}
    IN  IF from = {}
        THEN -1
        ELSE CHOOSE p \in from : \A other \in from : p <= other

includes(text, searchString) == indexOf(text, searchString, 0) # -1

Max(a, b) == IF a > b THEN a ELSE b
Min(a, b) == IF a < b THEN a ELSE b

\* the while loop of findMatches on one line, from position on
RECURSIVE lineMatches(_, _, _, _)
lineMatches(line, lineIndex, queryText, position) ==
    LET found == indexOf(toLowerCase(line), toLowerCase(queryText), position)
        contextStart == Max(0, found - 50)
        contextEnd == Min(Len(line), found + Len(queryText) + 50)
    IN  IF found = -1
        THEN <<>>
        ELSE <<[line |-> lineIndex + 1,
                text |-> SubSeq(line, contextStart + 1, contextEnd),
                start |-> found - contextStart,
                end |-> found - contextStart + Len(queryText)]>>
                 \o lineMatches(line, lineIndex, queryText,
                                found + (IF Len(queryText) # 0 THEN Len(queryText) ELSE 1))

\* lines.forEach of findMatches, from the line at lineIndex on
RECURSIVE linesMatches(_, _, _)
linesMatches(lines, lineIndex, queryText) ==
    IF lineIndex >= Len(lines)
    THEN <<>>
    ELSE lineMatches(lines[lineIndex + 1], lineIndex, queryText, 0)
             \o linesMatches(lines, lineIndex + 1, queryText)

findMatches(content, queryText) ==
    IF queryText = <<>>
    THEN <<>>
    ELSE Slice(linesMatches(split(content), 0, queryText), 5)

calculateScore(matchCount, queryLength, contentLength) ==
    LET frequencyScore == IF RatLess(Rat(matchCount, 10), One)
                          THEN Rat(matchCount, 10)
                          ELSE One
        densityScore == Rat(matchCount * queryLength, contentLength)
    IN  RatAdd(RatMul(frequencyScore, Rat(7, 10)), RatMul(densityScore, Rat(3, 10)))

\* the for loop of search over getAllFiles()
RECURSIVE searchFiles(_, _)
searchFiles(allFiles, queryText) ==
    IF allFiles = <<>>
    THEN <<>>
    ELSE LET file == Head(allFiles)
             matches == findMatches(file.content, queryText)
         IN  (IF file.content = <<>>
                 \/ (/\ ~includes(toLowerCase(file.title), toLowerCase(queryText))
                     /\ ~includes(toLowerCase(file.content), toLowerCase(queryText)))
              THEN <<>>
              ELSE <<[file |-> file,
                      score |-> calculateScore(Len(matches), Len(queryText),
                                               Len(file.content)),
                      matches |-> matches]>>)
                 \o searchFiles(Tail(allFiles), queryText)

\* the for loop of index: this.files.set(file.path, file) for every file
RECURSIVE setFiles(_, _)
setFiles(m, fs) ==
    IF fs = <<>>
    THEN m
    ELSE setFiles(MapSet(m, Head(fs).path, Head(fs)), Tail(fs))

\* this.files after an index(files) that kept the files it had
indexFilesKeeping(m, fs) == setFiles(m, fs)

\* this.files after index(files)
indexFiles(m, fs) == setFiles(EmptyMap, fs)

\* index(files)
keywordIndex(fs) ==
    /\ keywordFiles' = indexFiles(keywordFiles, fs)
    /\ results' = <<>>
    /\ query' = [files |-> fs]

\* update(file)
keywordUpdate(file) ==
    /\ keywordFiles' = MapSet(keywordFiles, file.path, file)
    /\ results' = <<>>
    /\ query' = [file |-> file]

\* remove(path)
keywordRemove(filePath) ==
    /\ keywordFiles' = MapDelete(keywordFiles, filePath)
    /\ results' = <<>>
    /\ query' = [path |-> filePath]

\* search({query, limit})
keywordSearch(queryText, limit) ==
    /\ results' = IF queryText = <<>>
                  THEN <<>>
                  ELSE Slice(sortByScore(searchFiles(MapValues(keywordFiles), queryText)),
                             limit)
    /\ query' = [query |-> queryText, limit |-> limit]
    /\ UNCHANGED keywordFiles

\* what a call of the keyword engine leaves alone; none of them rejects
LogKeyword(name) ==
    /\ op' = name
    /\ ret' = NoError
    /\ hist' = NoHist
    /\ UNCHANGED <<store, autoSave, disk, bak, atBackup, fresh,
                   keywordWeight, semanticWeight, hybridFiles>>
    /\ UNCHANGED providerVars
    /\ UNCHANGED fileVars
    /\ UNCHANGED engineVars

KeywordFile(path, title, content) == [path |-> path, title |-> title, content |-> content]

FiveTimes == <<"x", "x", "x", "x", "x">>
SixTimes == <<"x", "x", "x", "x", "x", "x">>
TwoLines == <<"X", "y", Newline, "x">>

\* the documents handed to the keyword engine: without content, with the
\* query term five and six times, on two lines, and in the title only
KeywordFiles ==
    {KeywordFile(path, <<"t">>, content) :
        path \in Paths, content \in {NoContent, FiveTimes, SixTimes, TwoLines}}
        \cup {KeywordFile("b", <<"x">>, <<"y">>)}

KeywordQueries == {<<>>, <<"x">>, <<"X", "x">>}

\* new HybridSearchEngine(config)
construct(hybridConfig) ==
    /\ keywordWeight' = weights(hybridConfig).keywordWeight
    /\ semanticWeight' = weights(hybridConfig).semanticWeight
    /\ results' = <<>>
    /\ query' = [hybrid |-> hybridConfig]

\* search({query, limit}) for a query that is not empty, on the lists its
\* two engines resolved with
hybridSearch(keywordResults, semanticResults, limit) ==
    /\ results' = mergeResults(keywordResults, semanticResults, limit,
                               keywordWeight, semanticWeight)
    /\ query' = [keywordResults |-> keywordResults,
                 semanticResults |-> semanticResults,
                 limit |-> limit]
    /\ UNCHANGED <<keywordWeight, semanticWeight>>

\* what a call of the hybrid engine leaves alone
LogHybrid(name) ==
    /\ op' = name
    /\ hist' = NoHist
    /\ ret' = NoError
    /\ UNCHANGED <<store, autoSave, disk, bak, atBackup, fresh, keywordFiles,
                   hybridFiles>>
    /\ UNCHANGED providerVars
    /\ UNCHANGED fileVars
    /\ UNCHANGED engineVars

\* the configured weights
HybridConfigs ==
    {NoHybrid}
        \cup {[given |-> TRUE, keywordWeight |-> w[1], semanticWeight |-> w[2]] :
                 w \in {<<Zero, Zero>>, <<Zero, One>>, <<Rat(3, 5), Rat(3, 5)>>,
                        <<Rat(1, 2), Rat(1001, 2000)>>}}

Match(text, line) == [line |-> line, text |-> text]

Result(path, score, matches) ==
    [file |-> [path |-> path], score |-> score, matches |-> matches]

MatchTexts == <<"y", "x", "yy", "xy", "yx", "xx">>

\* results of KeywordSearchEngine.search: at most five matches each
KeywordResults ==
    {Result("Aa", One, [k \in 1..5 |-> Match(MatchTexts[k + 1], k)]),
     Result("Aa", Rat(1, 2), <<Match("x", 1)>>),
     Result("b", Rat(1, 2), <<Match("x", 2)>>)}

\* results of SemanticSearchEngine.search: one match for each chunk found
SemanticResults ==
    {Result("Aa", One, <<Match("x", 1)>>),
     Result("Aa", Rat(-1, 2), <<Match("y", 1), Match("x", 3)>>),
     Result("b", Rat(3, 10), [k \in 1..6 |-> Match(MatchTexts[k], 2 * k - 1)]),
     Result("b", One, <<Match("yy", 1)>>)}

RECURSIVE matchCount(_)
matchCount(rs) ==
    IF rs = <<>> THEN 0 ELSE Len(Head(rs).matches) + matchCount(Tail(rs))

\* what both engines' lists are: no path twice, best score first
ResultLists(rs) ==
    {l \in SeqsUpTo(rs, 2) :
        /\ \A i, j \in 1..Len(l) : l[i].file.path = l[j].file.path => i = j
        /\ \A i \in 1..Len(l) - 1 : RatLeq(l[i + 1].score, l[i].score)}

InitHybrid ==
    /\ keywordWeight = weights(NoHybrid).keywordWeight
    /\ semanticWeight = weights(NoHybrid).semanticWeight
    /\ keywordFiles = EmptyMap
    /\ hybridFiles = EmptyMap

----------------------------------------------------------------------------
(* LocalEmbeddingProvider: the calls that wait for the model *)

\* embedder = null and initPromise = null
NoEmbedder == "null"
NoPromise == 0

NoCall ==
    [kind |-> "none", pc |-> "idle", promise |-> NoPromise, batches |-> 0,
     outcome |-> "none"]

\* a call that returned or threw; of the promise it awaited, only what
\* isReady() awaited is kept
Done(call, outcome) ==
    [call EXCEPT !.pc = "done", !.batches = 0, !.outcome = outcome,
                 !.promise = IF call.kind = "isReady" THEN @ ELSE NoPromise]

\* an initialize() that starts a load for every call that finds no embedder
noInitPromiseUnchecked == TRUE

\* if (!this.initPromise)
noInitPromise == initPromise = NoPromise

\* embed(text), embedBatch(texts) with the number of batches the texts make,
\* or isReady(), up to the await in initialize(): with an embedder
\* initialize() returns at once, otherwise the call awaits initPromise,
\* after starting doInitialize(), and with it the load, when there is none
providerCall(p, kind, batches) ==
    /\ calls[p].pc \in {"idle", "done"}
    /\ (embedder = NoEmbedder /\ noInitPromise) => Len(promises) < MaxLoads
    /\ IF embedder # NoEmbedder
       THEN /\ calls' = [calls EXCEPT ![p] = [kind |-> kind, pc |-> "await",
                                              promise |-> NoPromise,
                                              batches |-> batches,
                                              outcome |-> "none"]]
            /\ UNCHANGED <<initPromise, promises, loads>>
       ELSE IF noInitPromise
            THEN /\ promises' = Append(promises, "pending")
                 /\ initPromise' = Len(promises) + 1
                 /\ loads' = loads + 1
                 /\ calls' = [calls EXCEPT ![p] = [kind |-> kind, pc |-> "await",
                                                   promise |-> Len(promises) + 1,
                                                   batches |-> batches,
                                                   outcome |-> "none"]]
            ELSE /\ calls' = [calls EXCEPT ![p] = [kind |-> kind, pc |-> "await",
                                                   promise |-> initPromise,
                                                   batches |-> batches,
                                                   outcome |-> "none"]]
                 /\ UNCHANGED <<initPromise, promises, loads>>
    /\ UNCHANGED embedder

\* doInitialize() after await pipeline(...): the embedder is set and the
\* promise is fulfilled, or the promise is rejected
doInitialize(id, loaded) ==
    /\ id \in 1..Len(promises)
    /\ promises[id] = "pending"
    /\ promises' = [promises EXCEPT ![id] = IF loaded THEN "fulfilled" ELSE "rejected"]
    /\ embedder' = IF loaded THEN "pipeline" ELSE embedder
    /\ UNCHANGED <<initPromise, calls, loads>>

\* the call after await this.initialize(): isReady() returns, the catch of
\* isReady() returns false, embed and embedBatch throw without an embedder
\* and call it otherwise
afterInitialize(p) ==
    LET call == calls[p]
        rejected == call.promise # NoPromise /\ promises[call.promise] = "rejected"
    IN  /\ call.pc = "await"
        /\ call.promise # NoPromise => promises[call.promise] # "pending"
        /\ calls' = [calls EXCEPT ![p] =
               IF call.kind = "isReady"
               THEN Done(call, IF rejected THEN "false"
                               ELSE IF embedder # NoEmbedder THEN "true" ELSE "false")
               ELSE IF rejected
                    THEN Done(call, "Failed to load local embedding model")
                    ELSE IF embedder = NoEmbedder
                         THEN Done(call, "Embedder not initialized")
                         ELSE IF call.batches = 0
                              THEN Done(call, "embeddings")
                              ELSE [call EXCEPT !.pc = "embedder"]]
        /\ UNCHANGED <<embedder, initPromise, promises, loads>>

\* the embedder answers for the text of embed or for a batch of embedBatch
\* (answered) or throws; the next batch reads this.embedder again
embedderReturns(p, answered) ==
    LET call == calls[p]
    IN  /\ call.pc = "embedder"
        /\ calls' = [calls EXCEPT ![p] =
               IF ~answered
               THEN Done(call, "Failed to generate embedding")
               ELSE IF call.batches = 1
                    THEN Done(call, "embeddings")
                    ELSE IF embedder = NoEmbedder
                         THEN Done(call, "Failed to generate embedding")
                         ELSE [call EXCEPT !.batches = @ - 1]]
        /\ UNCHANGED <<embedder, initPromise, promises, loads>>

\* dispose()
providerDispose ==
    /\ embedder # NoEmbedder
    /\ embedder' = NoEmbedder
    /\ initPromise' = NoPromise
    /\ loads' = 0
    /\ UNCHANGED <<promises, calls>>

\* what a step of the provider leaves alone
LogProvider ==
    /\ UNCHANGED <<store, autoSave, disk, bak, atBackup, fresh, ret, op, hist,
                   results, query>>
    /\ UNCHANGED fileVars
    /\ UNCHANGED engineVars
    /\ UNCHANGED hybridVars

\* the batches of an embedBatch call: none for no texts, or two
BatchCounts == {0, 2}

\* callers of one provider, their calls interleaved at every await
NextProvider ==
    \/ \E p \in Callers : providerCall(p, "embed", 1) /\ LogProvider
    \/ \E p \in Callers, batches \in BatchCounts :
           providerCall(p, "embedBatch", batches) /\ LogProvider
    \/ \E p \in Callers : providerCall(p, "isReady", 0) /\ LogProvider
    \/ \E id \in 1..MaxLoads, loaded \in BOOLEAN :
           doInitialize(id, loaded) /\ LogProvider
    \/ \E p \in Callers : afterInitialize(p) /\ LogProvider
    \/ \E p \in Callers, answered \in BOOLEAN :
           embedderReturns(p, answered) /\ LogProvider
    \/ providerDispose /\ LogProvider

InitProvider ==
    /\ embedder = NoEmbedder
    /\ initPromise = NoPromise
    /\ promises = <<>>
    /\ calls = [p \in Callers |-> NoCall]
    /\ loads = 0

InitFile ==
    /\ pc = [p \in Callers |-> "idle"]
    /\ data = [p \in Callers |-> <<>>]
    /\ fd = [p \in Callers |-> NoInode]
    /\ dir = [file |-> NoInode, tmp |-> NoInode]
    /\ inodes = [i \in Callers |-> EmptyFile]
    /\ seen = {<<>>}

InitStore ==
    /\ InitFile
    /\ InitProvider
    /\ InitEngine
    /\ InitHybrid
    /\ cacheEmbeddings = FALSE
    /\ store = EmptyMap
    /\ autoSave \in BOOLEAN
    /\ disk = NoFile
    /\ bak = NoFile
    /\ atBackup = [mem |-> EmptyMap, disk |-> NoFile]
    /\ fresh = EmptyMap
    /\ ret = NoError
    /\ op = "new"
    /\ hist = NoHist
    /\ results = <<>>
    /\ query = NoQuery

\* the calls of a MemoryVectorStore or FileVectorStore that change the store
NextMem ==
    \/ \E e \in StoreEntries : add(e) /\ Log("add")
    \/ \E es \in SeqsUpTo(BatchEntries, MaxBatch) : addBatch(es) /\ Log("addBatch")
    \/ \E id \in Ids, e \in StoreEntries : update(id, e) /\ Log("update")
    \/ \E id \in Ids \cup {AbsentId} : remove(id) /\ Log("remove")
    \/ \E ids \in SeqsUpTo(Ids \cup {AbsentId}, MaxRemoveBatch) :
           removeBatch(ids) /\ LogBatch("removeBatch", ids)
    \/ clear /\ Log("clear")

SpecMem == InitStore /\ [][NextMem]_vars

\* every call of a FileVectorStore but backup and restore
Next ==
    \/ \E e \in StoreEntries : add(e) /\ Log("add")
    \/ \E es \in SeqsUpTo(BatchEntries, MaxBatch) : addBatch(es) /\ Log("addBatch")
    \/ \E id \in Ids, e \in StoreEntries : update(id, e) /\ Log("update")
    \/ \E id \in Ids \cup {AbsentId} : remove(id) /\ Log("remove")
    \/ \E ids \in SeqsUpTo(Ids \cup {AbsentId}, MaxBatch) :
           removeBatch(ids) /\ Log("removeBatch")
    \/ clear /\ Log("clear")
    \/ persist /\ Log("persist")
    \/ load /\ Log("load")
    \/ freshLoad /\ Log("freshLoad")

Init == InitStore

Spec == Init /\ [][Next]_vars

\* the calls of a FileVectorStore around backup() and restore(); the
\* mutating calls between them are logged alike
NextBackup ==
    \/ \E e \in BackupEntries : add(e) /\ Log("mutate")
    \/ \E es \in SeqsUpTo(BackupEntries \cup {MkEntry(NoId, <<1, 0>>, "p")}, MaxBatch) :
           addBatch(es) /\ Log("mutate")
    \/ \E id \in Ids, e \in BackupEntries : update(id, e) /\ Log("mutate")
    \/ \E id \in Ids : remove(id) /\ Log("mutate")
    \/ \E ids \in SeqsUpTo(Ids, MaxBatch) : removeBatch(ids) /\ Log("mutate")
    \/ clear /\ Log("mutate")
    \/ persist /\ Log("persist")
    \/ backup /\ Log("backup")
    \/ restore /\ LogBatch("restore", <<>>)

SpecBackup == InitStore /\ [][NextBackup]_vars

\* a MemoryVectorStore filled and searched
NextSearch ==
    \/ \E e \in SearchEntries : add(e) /\ Log("add")
    \/ \E e \in SearchEntries : remove(e.metadata.id) /\ Log("remove")
    \/ \E q \in QueryVectors, o \in SearchOptions :
           search(q, o) /\ LogSearch(q, o)

InitSearch == InitStore /\ autoSave = FALSE

SpecSearch == InitSearch /\ [][NextSearch]_vars

\* what the calls in flight leave alone
Background ==
    /\ UNCHANGED <<autoSave, disk, bak, atBackup, fresh, ret, op, hist, results, query>>
    /\ UNCHANGED engineVars
    /\ UNCHANGED hybridVars
    /\ UNCHANGED providerVars

\* mutating calls of an auto-saving FileVectorStore in flight together
NextPersist ==
    \/ \E p \in Callers, e \in BackupEntries : startAdd(p, e) /\ Background
    \/ \E p \in Callers : startClear(p) /\ Background
    \/ \E p \in Callers : mkdirDone(p) /\ Background
    \/ \E p \in Callers : openTemp(p) /\ Background
    \/ \E p \in Callers : writeTemp(p) /\ Background
    \/ \E p \in Callers : renameTemp(p) /\ Background

InitPersist == InitStore /\ autoSave = TRUE

SpecPersist == InitPersist /\ [][NextPersist]_vars

\* what isReady() can answer: it is asked only by an engine not yet
\* initialized
Readiness == IF isInitialized THEN {TRUE} ELSE BOOLEAN

\* the calls of a SemanticSearchEngine, one after the other, and restarts
NextSemantic ==
    \/ \E fs \in SeqsUpTo(FileInfos, MaxFiles), ready \in Readiness :
           \E failing \in SUBSET (1..MaxFailing) :
               index(fs, ready, failing) /\ LogFiles("semantic.index", fs)
    \/ \E file \in FileInfos, ready \in Readiness, embedOk \in BOOLEAN :
           semanticUpdate(file, ready, embedOk) /\ LogEngine("semantic.update")
    \/ \E filePath \in Paths, ready \in Readiness :
           semanticRemove(filePath, ready) /\ LogEngine("semantic.remove")
    \/ \E q \in Queries, limit \in 1..MaxLimit, ready \in Readiness,
          embedOk \in BOOLEAN :
           semanticSearch(q, limit, ready, embedOk) /\ LogEngine("semantic.search")

\* an engine over a cache file that outlives it: documents are updated and
\* removed, the process ends and a new engine starts
NextRestart ==
    \/ \E file \in FileInfos, ready \in Readiness, embedOk \in BOOLEAN :
           semanticUpdate(file, ready, embedOk) /\ LogEngine("semantic.update")
    \/ \E filePath \in Paths, ready \in Readiness :
           semanticRemove(filePath, ready) /\ LogEngine("semantic.remove")
    \/ restart /\ LogEngine("new")

InitSemantic ==
    /\ InitFile
    /\ InitProvider
    /\ InitEngine
    /\ InitHybrid
    /\ cacheEmbeddings \in BOOLEAN
    /\ autoSave = cacheEmbeddings
    /\ store = EmptyMap
    /\ disk = NoFile
    /\ bak = NoFile
    /\ atBackup = [mem |-> EmptyMap, disk |-> NoFile]
    /\ fresh = EmptyMap
    /\ ret = NoError
    /\ op = "new"
    /\ hist = NoHist
    /\ results = <<>>
    /\ query = NoQuery

SpecSemantic == InitSemantic /\ [][NextSemantic]_vars

InitRestart == InitSemantic /\ cacheEmbeddings = TRUE

SpecRestart == InitRestart /\ [][NextRestart]_vars

\* the queries of a search: the texts of Queries and one whose vector points
\* away from the documents'
SearchQueries == Queries \cup {<<"z">>}

\* documents are updated and removed, the engine is searched, the process
\* ends and a new engine starts over the same cache file
NextEngineSearch ==
    \/ \E file \in {f \in FileInfos : f.modified = 1}, ready \in Readiness,
          embedOk \in BOOLEAN :
           semanticUpdate(file, ready, embedOk) /\ LogEngine("semantic.update")
    \/ \E filePath \in Paths, ready \in Readiness :
           semanticRemove(filePath, ready) /\ LogEngine("semantic.remove")
    \/ \E q \in SearchQueries, limit \in 1..MaxLimit, ready \in Readiness,
          embedOk \in BOOLEAN :
           semanticSearch(q, limit, ready, embedOk)
               /\ LogQuery("semantic.search", q, limit)
    \/ restart /\ LogEngine("new")

SpecEngineSearch == InitRestart /\ [][NextEngineSearch]_vars

\* the documents of the larger corpus
CorpusFiles ==
    [path : CorpusPaths, title : Titles,
     content : {OneChunkContent, TwoChunkContent}, modified : {1}]

\* documents of the larger corpus are indexed one by one and removed
NextCorpus ==
    \/ \E file \in CorpusFiles, ready \in Readiness, embedOk \in BOOLEAN :
           semanticUpdate(file, ready, embedOk) /\ LogEngine("semantic.update")
    \/ \E filePath \in CorpusPaths, ready \in Readiness :
           semanticRemove(filePath, ready) /\ LogEngine("semantic.remove")

SpecCorpus == InitSemantic /\ [][NextCorpus]_vars

\* documents are indexed again with older, equal and newer timestamps, and
\* removed; the provider may fail
NextReindex ==
    \/ \E file \in FileInfos, ready \in Readiness, embedOk \in BOOLEAN :
           semanticUpdate(file, ready, embedOk) /\ LogFile("semantic.update", file)
    \/ \E filePath \in Paths, ready \in Readiness :
           semanticRemove(filePath, ready) /\ LogEngine("semantic.remove")

SpecReindex == InitSemantic /\ [][NextReindex]_vars

----------------------------------------------------------------------------
(* HybridSearchEngine over its two engines *)

\* index(files): the engine's own Map is cleared and filled, then both
\* engines index the files; the call rejects when the semantic one does
hybridIndex(fs, ready, failing) ==
    /\ hybridFiles' = setFiles(EmptyMap, fs)
    /\ keywordFiles' = indexFiles(keywordFiles, fs)
    /\ index(fs, ready, failing)

\* update(file)
hybridUpdate(file, ready, embedOk) ==
    /\ hybridFiles' = MapSet(hybridFiles, file.path, file)
    /\ keywordFiles' = MapSet(keywordFiles, file.path, file)
    /\ semanticUpdate(file, ready, embedOk)

\* remove(path)
hybridRemove(filePath, ready) ==
    /\ hybridFiles' = MapDelete(hybridFiles, filePath)
    /\ keywordFiles' = MapDelete(keywordFiles, filePath)
    /\ semanticRemove(filePath, ready)

\* the root r with r * r = n; the vectors of the hybrid documents have
\* norms that are whole numbers
Sqrt(n) == CHOOSE r \in 0..n : r * r = n

\* the number a cosine score is
cosine(s) == Rat(s.num, Sqrt(s.den2))

\* the SearchResult list the semantic engine resolves with, its scores as
\* numbers; the match contexts of its results are left out
semanticResultList(init, queryText, limit, embedOk) ==
    LET rs == semanticSearchResults(init, queryText, limit, embedOk)
    IN  [k \in 1..Len(rs) |->
            [file |-> rs[k].file, score |-> cosine(rs[k].score), matches |-> <<>>]]

\* the list the keyword engine resolves with
keywordResultList(queryText, limit) ==
    Slice(sortByScore(searchFiles(MapValues(keywordFiles), queryText)), limit)

\* search({query, limit}) of the hybrid engine: both engines search with
\* the same options and the two lists are merged
hybridEngineSearch(queryText, limit, ready, embedOk) ==
    IF queryText = <<>>
    THEN /\ results' = <<>>
         /\ ret' = NoError
         /\ hist' = [log |-> <<>>]
         /\ UNCHANGED <<store, autoSave, disk, bak, atBackup, fresh>>
         /\ UNCHANGED engineVars
         /\ UNCHANGED <<keywordFiles, hybridFiles>>
    ELSE LET init == initialize(ready)
         IN  /\ isInitialized' = init.isInitialized
             /\ store' = init.store
             /\ ret' = init.error
             /\ results' = IF init.error # NoError
                           THEN <<>>
                           ELSE mergeResults(keywordResultList(queryText, limit),
                                             semanticResultList(init, queryText,
                                                                limit, embedOk),
                                             limit, keywordWeight, semanticWeight)
             /\ hist' = [log |-> <<>>]
             /\ fresh' = EmptyMap
             /\ UNCHANGED <<autoSave, disk, bak, atBackup, cacheEmbeddings,
                            indexedDocuments, files>>
             /\ UNCHANGED <<keywordFiles, hybridFiles>>

\* the history variables of a call of the hybrid engine: its arguments and,
\* for a search, whether embed(query) resolved
LogHybridCall(name, arguments) ==
    /\ op' = name
    /\ query' = arguments
    /\ UNCHANGED fileVars
    /\ UNCHANGED providerVars
    /\ UNCHANGED <<keywordWeight, semanticWeight>>

\* the documents handed to the hybrid engine
HybridFileInfos ==
    [path : Paths, title : Titles, content : HybridContents, modified : {1}]

HybridQueries == {<<>>, <<"x">>}

\* the calls of a HybridSearchEngine, one after the other
NextHybridEngine ==
    \/ \E fs \in SeqsUpTo(HybridFileInfos, MaxFiles), ready \in Readiness :
           \E failing \in SUBSET (1..MaxFailing) :
               hybridIndex(fs, ready, failing)
               /\ LogHybridCall("hybrid.index", [files |-> fs])
    \/ \E file \in HybridFileInfos, ready \in Readiness, embedOk \in BOOLEAN :
           hybridUpdate(file, ready, embedOk)
           /\ LogHybridCall("hybrid.update", [file |-> file])
    \/ \E filePath \in Paths, ready \in Readiness :
           hybridRemove(filePath, ready)
           /\ LogHybridCall("hybrid.remove", [path |-> filePath])
    \/ \E q \in HybridQueries, limit \in 1..MaxLimit, ready \in Readiness,
          embedOk \in BOOLEAN :
           hybridEngineSearch(q, limit, ready, embedOk)
           /\ LogHybridCall("hybrid.search",
                            [query |-> q, limit |-> limit, embedded |-> embedOk])

SpecHybridEngine == InitSemantic /\ [][NextHybridEngine]_vars

\* a HybridSearchEngine: constructed with some configuration, then searched;
\* the semantic engine reads at most 2 * limit chunks
NextHybrid ==
    \/ \E c \in HybridConfigs : construct(c) /\ LogHybrid("hybrid.new")
    \/ \E limit \in 1..MaxSearchLimit :
           \E ks \in ResultLists(KeywordResults), ss \in ResultLists(SemanticResults) :
               /\ Len(ks) <= limit
               /\ Len(ss) <= limit
               /\ matchCount(ss) <= 2 * limit
               /\ hybridSearch(ks, ss, limit)
               /\ LogHybrid("hybrid.search")

SpecHybrid == InitStore /\ [][NextHybrid]_vars

\* the calls of a KeywordSearchEngine, one after the other
NextKeyword ==
    \/ \E fs \in SeqsUpTo(KeywordFiles, MaxFiles) :
           keywordIndex(fs) /\ LogKeyword("keyword.index")
    \/ \E file \in KeywordFiles : keywordUpdate(file) /\ LogKeyword("keyword.update")
    \/ \E filePath \in Paths : keywordRemove(filePath) /\ LogKeyword("keyword.remove")
    \/ \E q \in KeywordQueries, limit \in 1..MaxSearchLimit :
           keywordSearch(q, limit) /\ LogKeyword("keyword.search")

SpecKeyword == InitStore /\ [][NextKeyword]_vars

\* a line of 55 spaces
Spaces == [k \in 1..55 |-> " "]

\* the contents searched for matches: every short text of the letters, and
\* lines longer than the context of a match
MatchContents ==
    (SeqsUpTo({"x", "X", DottedI, Newline}, MaxContentLength) \ {NoContent})
        \cup {Spaces \o <<"x">> \o Spaces, <<"x">> \o Spaces \o <<"X">>}

MatchQueries == {<<"x">>, <<"X", "x">>}

\* searches of a keyword engine that holds one document
NextMatches ==
    \E q \in MatchQueries, limit \in 1..MaxSearchLimit :
        keywordSearch(q, limit) /\ LogKeyword("keyword.search")

InitMatches ==
    /\ InitFile
    /\ InitProvider
    /\ InitEngine
    /\ keywordWeight = weights(NoHybrid).keywordWeight
    /\ semanticWeight = weights(NoHybrid).semanticWeight
    /\ keywordFiles \in {setFiles(EmptyMap, <<KeywordFile("b", <<"t">>, content)>>) :
                            content \in MatchContents}
    /\ hybridFiles = EmptyMap
    /\ cacheEmbeddings = FALSE
    /\ store = EmptyMap
    /\ autoSave = FALSE
    /\ disk = NoFile
    /\ bak = NoFile
    /\ atBackup = [mem |-> EmptyMap, disk |-> NoFile]
    /\ fresh = EmptyMap
    /\ ret = NoError
    /\ op = "new"
    /\ hist = NoHist
    /\ results = <<>>
    /\ query = NoQuery

SpecMatches == InitMatches /\ [][NextMatches]_vars

\* the lines of the text around a code block: blank, of spaces only, and of
\* eight letters
TextLines == {<<>>, <<" ">>, <<"x", "x", "x", "x", "x", "x", "x", "x">>}

CodeLine == <<"c">>

NoBlock == <<>>

\* a document without a fenced code block, or the lines of its only one
CodeBlocks ==
    {NoBlock, <<Fence, Fence>>, <<Fence, CodeLine, Fence>>,
     <<Fence, CodeLine, CodeLine, Fence>>}

ChunkOptions ==
    [maxChunkSize : {2, 4},
     overlapSize : 0..MaxOverlap,
     chunkByParagraph : BOOLEAN,
     preserveCodeBlocks : BOOLEAN]

\* the documents handed to the chunker: text, a code block or none, text
ChunkInputs ==
    [before : SeqsUpTo(TextLines, MaxTextLines),
     block : CodeBlocks,
     after : SeqsUpTo(TextLines, MaxTextLines),
     options : ChunkOptions]

\* the content of the document: its lines joined
Content(input) == join(input.before \o input.block \o input.after)

\* new DocumentChunker(options).chunkDocument(content, filePath, title)
chunk ==
    /\ op = "new"
    /\ op' = "chunkDocument"
    /\ results' = chunkDocument(Content(query), "b", "t", query.options)
    /\ UNCHANGED <<store, autoSave, disk, bak, atBackup, fresh, ret, hist, query>>
    /\ UNCHANGED fileVars
    /\ UNCHANGED engineVars
    /\ UNCHANGED hybridVars
    /\ UNCHANGED providerVars

NextChunk == chunk

InitChunk ==
    /\ InitFile
    /\ InitProvider
    /\ InitEngine
    /\ InitHybrid
    /\ cacheEmbeddings = FALSE
    /\ store = EmptyMap
    /\ autoSave = FALSE
    /\ disk = NoFile
    /\ bak = NoFile
    /\ atBackup = [mem |-> EmptyMap, disk |-> NoFile]
    /\ fresh = EmptyMap
    /\ ret = NoError
    /\ op = "new"
    /\ hist = NoHist
    /\ results = <<>>
    /\ query \in ChunkInputs

SpecChunk == InitChunk /\ [][NextChunk]_vars

----------------
(* What a caller sees of a store: size() and get(id) for every id *)

AllIds == Ids \cup {AbsentId, NoId}

SameContents(m1, m2) ==
    /\ MemSize(m1) = MemSize(m2)
    /\ \A id \in AllIds : MemGet(m1, id) = MemGet(m2, id)

MutatingOps == {"add", "addBatch", "update", "remove", "removeBatch", "clear"}

----------------------------------------------------------------------------
(* C4 *)

\* the positions of a removeBatch list whose id is absent when its turn comes
AbsentPositions(pre, ids) ==
    {i \in 1..Len(ids) :
        \/ ~MapHas(pre, ids[i])
        \/ \E j \in 1..(i - 1) : ids[j] = ids[i]}

FirstAbsent(pre, ids) ==
    CHOOSE i \in AbsentPositions(pre, ids) : \A j \in AbsentPositions(pre, ids) : i <= j

\* C4: removeBatch(ids) works through ids in list order and is not
\* transactional.  When some id is absent at its turn, the call rejects with
\* the not-found error naming the first such id, every id before it in the
\* list is gone from the store (has is false, get gives nothing), and every
\* entry whose id does not come before it is still stored, unchanged; in
\* particular the entries whose ids come only after it are left in the store.
C4_RemoveBatchNotTransactional ==
    (op = "removeBatch" /\ AbsentPositions(hist.pre, hist.ids) # {}) =>
        LET k == FirstAbsent(hist.pre, hist.ids)
            before == {hist.ids[j] : j \in 1..(k - 1)}
        IN  /\ ret = NotFoundError(hist.ids[k])
            /\ \A id \in before : ~MapHas(store, id) /\ MemGet(store, id) = {}
            /\ \A id \in MapKeys(hist.pre) \ before :
                   MapHas(store, id) /\ MapGet(store, id) = MapGet(hist.pre, id)
            /\ MapKeys(store) \subseteq MapKeys(hist.pre)

\* a batch [x, absent, y] on a store holding x and y: x is gone, y is left
C4_Witness ==
    /\ op = "removeBatch"
    /\ Len(hist.ids) = 3
    /\ ret = NotFoundError(hist.ids[2])
    /\ MapHas(hist.pre, hist.ids[1])
    /\ ~MapHas(store, hist.ids[1])
    /\ hist.ids[3] # hist.ids[1]
    /\ MapHas(store, hist.ids[3])

----------------------------------------------------------------------------
(* C6 *)

\* C6: after persist() and load() on a fresh FileVectorStore bound to the
\* same path, the fresh store has the same number of entries and, for every
\* id, the same entry as the store that was persisted.
C6_PersistLoadRoundTrip ==
    op = "freshLoad" => SameContents(fresh, store)

----------------------------------------------------------------------------
(* C7 *)

----------------------------------------------------------------------------
(* C9 *)

\* C9: load() with no snapshot file at the store's path resolves and leaves
\* the store empty, whatever it held before.
C9_LoadMissingFileEmpty ==
    (op = "load" /\ ~disk.exists) =>
        (ret = NoError /\ MemSize(store) = 0)

----------------------------------------------------------------------------
(* C10 *)

\* the valid entries of a snapshot that carry a given id
SnapshotPositions(file, id) ==
    {i \in 1..Len(file.entries) :
        ValidEntry(file.entries[i]) /\ file.entries[i].metadata.id = id}

\* what a snapshot holds for an id: its last valid entry with that id
SnapshotGet(file, id) ==
    LET ps == SnapshotPositions(file, id)
    IN  IF ps = {}
        THEN {}
        ELSE {file.entries[CHOOSE i \in ps : \A j \in ps : j <= i]}

SnapshotIds(file) == {id \in AllIds : SnapshotPositions(file, id) # {}}

\* the snapshot is the persisted image of a store whose entries are all
\* stored under their own metadata.id
InSync(m, file) ==
    /\ file.exists
    /\ file.entries = getAllEntries(m)
    /\ \A i \in 1..Len(m) : m[i].key = m[i].entry.metadata.id

BackupFailsWithoutSnapshot ==
    op = "backup" =>
        (ret = IF disk.exists THEN NoError ELSE NoStoreFileError)

\* C10 as claimed: restore(p) returns the store to the contents it held in
\* memory when backup() was called; backup() without a snapshot file fails
\* with 'No store file to backup'.
C10_RestoreReturnsMemory ==
    /\ (op = "restore" /\ ret = NoError) =>
           SameContents(store, atBackup.mem)
    /\ BackupFailsWithoutSnapshot

\* C10 as amended: restore(p) returns the store to the contents of the
\* snapshot file as it was when backup() was called: exactly the snapshot's
\* valid entries, each under its metadata.id, nothing added since remaining.
\* These are the contents the store held in memory at that moment whenever
\* the snapshot then was the persisted image of the store and every entry
\* was stored under its own metadata.id.  backup() without a snapshot file
\* fails with 'No store file to backup'.
C10_RestoreReturnsSnapshot ==
    /\ (op = "restore" /\ ret = NoError) =>
           /\ MapKeys(store) = SnapshotIds(atBackup.disk)
           /\ \A id \in AllIds : MemGet(store, id) = SnapshotGet(atBackup.disk, id)
           /\ InSync(atBackup.mem, atBackup.disk) => SameContents(store, atBackup.mem)
    /\ BackupFailsWithoutSnapshot

\* a restore that brings back an entry removed since the backup and drops
\* one added since, the backup having been taken of a store in sync
C10_Witness ==
    /\ op = "restore"
    /\ ret = NoError
    /\ InSync(atBackup.mem, atBackup.disk)
    /\ MapKeys(atBackup.mem) = {"a"}
    /\ MapKeys(hist.pre) = {"b"}
    /\ MapKeys(store) = {"a"}

----------------------------------------------------------------------------
(* C5 *)

\* the entries of the store a search with these options may return
Eligible(m, queryVector, options) ==
    {e \in {m[i].entry : i \in 1..Len(m)} :
        /\ options.filter # NoFilter => e.metadata.path = options.filter
        /\ options.minScore.given =>
               AtLeastMinScore(cosineSimilarity(queryVector, e.vector), options.minScore)}

Returned == {results[i].entry : i \in 1..Len(results)}

\* C5: search(queryVector, {topK, minScore, filter}) returns the best topK
\* eligible entries.  Every returned entry is a stored entry with its cosine
\* score, passes the filter and is not below minScore; no entry is returned
\* twice; the list has min(topK, number of eligible entries) entries, in
\* non-increasing order of score; no eligible entry left out scores
\* strictly higher than a returned one; and the store is as it was.
C5_SearchReturnsBestTopK ==
    (op = "search" /\ ret = NoError) =>
        LET q == query.queryVector
            o == query.options
            eligible == Eligible(hist.pre, q, o)
        IN  /\ \A i \in 1..Len(results) :
                   /\ results[i].entry \in eligible
                   /\ ScoreLeq(results[i].score, cosineSimilarity(q, results[i].entry.vector))
                   /\ ScoreLeq(cosineSimilarity(q, results[i].entry.vector), results[i].score)
            /\ \A i, j \in 1..Len(results) :
                   i < j => /\ results[i].entry # results[j].entry
                            /\ ScoreLeq(results[j].score, results[i].score)
            /\ Len(results) <= o.topK
            /\ Len(results) < o.topK => Returned = eligible
            /\ \A e \in eligible \ Returned : \A i \in 1..Len(results) :
                   ScoreLeq(cosineSimilarity(q, e.vector), results[i].score)
            /\ store = hist.pre

\* a search that has to choose: four entries stored, three of them
\* eligible, two returned, the second scoring less than the first
C5_Witness ==
    /\ op = "search"
    /\ ret = NoError
    /\ Len(store) = 4
    /\ query.options.topK = 2
    /\ query.options.minScore.given
    /\ Cardinality(Eligible(store, query.queryVector, query.options)) = 3
    /\ Len(results) = 2
    /\ ScoreLess(results[2].score, results[1].score)

----------------------------------------------------------------------------
(* C8 *)

\* C8: at every instant, whatever the interleaving of the persist() calls in
\* flight and wherever the process stops, the file at the snapshot path is
\* absent or holds one complete snapshot of entries the store has held, and
\* no persist() fails because of another one.
C8_SnapshotAtomic ==
    /\ dir.file # NoInode =>
           /\ inodes[dir.file].whole
           /\ inodes[dir.file].entries \in seen
    /\ \A p \in Callers : pc[p] # "ENOENT"

----------------------------------------------------------------------------
(* C1, C2, C3 *)

\* C1: SemanticSearchEngine.search never rejects: whatever fails while the
\* query is served, the caller gets a list (an empty one), not an exception.
C1_SearchNeverRejects == op = "semantic.search" => ret = NoError

\* the paths of the files indexFile was called for, in order
Attempted == [k \in 1..Len(hist.log) |-> hist.log[k].path]

\* C2: SemanticSearchEngine.index always completes: it resolves whatever the
\* provider and the vector store do, and every document of the list is
\* attempted.
C2_IndexAlwaysCompletes ==
    op = "semantic.index" => (ret = NoError /\ Attempted = query.files)

\* the vector entries the current content of the document at filePath gives
CurrentEntries(filePath) ==
    LET file == files[filePath]
        chunks == documentChunker[file.content, filePath, file.title]
    IN  {MkEntry(chunks[k].id, embedding(chunks[k].content), filePath) :
            k \in 1..Len(chunks)}

\* the paths the last index() or update() indexed
Indexed == {hist.log[k].path : k \in {j \in 1..Len(hist.log) : hist.log[j].outcome = "indexed"}}

\* C3: after index() or update() has indexed a document, every vector entry
\* of the store with the document's path is a chunk of the document's
\* current content, wherever the older entries of that path came from.
C3_NoStaleVectors ==
    op \in {"semantic.index", "semantic.update"} =>
        \A filePath \in Indexed :
            \A i \in 1..Len(store) :
                store[i].entry.metadata.path = filePath =>
                    store[i].entry \in CurrentEntries(filePath)

----------------------------------------------------------------------------
(* C11 *)

\* C11: in every reachable state of a vector store every stored entry has a
\* non-empty metadata.id, no two stored entries share a metadata.id, and the
\* key an entry is retrievable under is its metadata.id.
C11_IdsMandatoryUnique ==
    /\ \A i \in 1..Len(store) :
           /\ store[i].entry.metadata.id # NoId
           /\ store[i].key = store[i].entry.metadata.id
    /\ \A i, j \in 1..Len(store) :
           store[i].entry.metadata.id = store[j].entry.metadata.id => i = j

(* C14 *)
\* C14: after a HybridSearchEngine is constructed with configured weights,
\* keywordWeight and semanticWeight are numbers, they sum to 1, and they
\* stand in the ratio of the configured weights.
C14_WeightsNormalized ==
    (op = "hybrid.new" /\ query.hybrid.given) =>
        /\ ~IsNaN(keywordWeight)
        /\ ~IsNaN(semanticWeight)
        /\ RatAdd(keywordWeight, semanticWeight) = One
        /\ RatMul(keywordWeight, query.hybrid.semanticWeight)
               = RatMul(semanticWeight, query.hybrid.keywordWeight)

(* C12 *)
\* the score the engine's list gave the path, 0 when the path is not in it
ScoreOf(rs, path) ==
    IF \E i \in 1..Len(rs) : rs[i].file.path = path
    THEN rs[CHOOSE i \in 1..Len(rs) : rs[i].file.path = path].score
    ELSE Zero

\* C12: every result of a hybrid search has the score keywordScore *
\* keywordWeight + semanticScore * semanticWeight, a score of 0 standing for
\* an engine that did not return the document; no path comes twice, the
\* scores do not increase along the list, and the list is no longer than
\* limit.
C12_HybridScores ==
    op = "hybrid.search" =>
        /\ \A i \in 1..Len(results) :
               results[i].score
                   = RatAdd(RatMul(ScoreOf(query.keywordResults, results[i].file.path),
                                   keywordWeight),
                            RatMul(ScoreOf(query.semanticResults, results[i].file.path),
                                   semanticWeight))
        /\ \A i, j \in 1..Len(results) :
               results[i].file.path = results[j].file.path => i = j
        /\ \A i \in 1..Len(results) - 1 :
               RatLeq(results[i + 1].score, results[i].score)
        /\ Len(results) <= query.limit

(* C13 *)
\* the matches the engine's list gave the path, none when the path is not
\* in it
MatchesOf(rs, path) ==
    IF \E i \in 1..Len(rs) : rs[i].file.path = path
    THEN rs[CHOOSE i \in 1..Len(rs) : rs[i].file.path = path].matches
    ELSE <<>>

\* C13: the matches of every result of a hybrid search are the semantic
\* matches of the document, then its keyword matches whose text is not among
\* them, cut to five, whichever of the two engines found the document.
C13_HybridMatches ==
    op = "hybrid.search" =>
        \A i \in 1..Len(results) :
            LET semantic == MatchesOf(query.semanticResults, results[i].file.path)
                keyword == MatchesOf(query.keywordResults, results[i].file.path)
                new == SelectSeq(keyword,
                                 LAMBDA m : \A k \in 1..Len(semantic) :
                                                semantic[k].text # m.text)
            IN  /\ results[i].matches = SubSeq(semantic \o new, 1, Len(results[i].matches))
                /\ Len(results[i].matches) = IF Len(semantic \o new) < 5
                                             THEN Len(semantic \o new)
                                             ELSE 5

(* C15 *)
\* C15: every result of SemanticSearchEngine.search has a score between 0
\* and 1, whatever the stored vectors and the query vector are.
C15_ScoresInUnitInterval ==
    op = "semantic.search" =>
        \A i \in 1..Len(results) :
            /\ ScoreLeq(Score(0, 1), results[i].score)
            /\ ScoreLeq(results[i].score, Score(1, 1))

(* C18 *)
\* the cosine scores of the vector entries stored for the path
PathScores(filePath) ==
    {cosineSimilarity(embedding(query.query), store[i].entry.vector) :
        i \in {j \in 1..Len(store) : store[j].entry.metadata.path = filePath}}

Occurrences(content, queryText) == Len(linesMatches(split(content), 0, queryText))

\* the line without the occurrences of the query term, from position on
RECURSIVE lineRest(_, _, _)
lineRest(line, queryText, position) ==
    LET found == indexOf(toLowerCase(line), toLowerCase(queryText), position)
    IN  IF found = -1
        THEN SubSeq(line, position + 1, Len(line))
        ELSE SubSeq(line, position + 1, found)
                 \o lineRest(line, queryText, found + Len(queryText))

\* the content without the occurrences of the query term
Rest(content, queryText) ==
    LET lines == split(content)
    IN  [k \in 1..Len(lines) |-> lineRest(lines[k], queryText, 0)]

\* C16: of two documents a keyword search returns that are the same but for
\* the occurrences of the query term, the one with strictly more occurrences
\* has a score at least as high as the other's.
C16_ScoreMonotonic ==
    op = "keyword.search" =>
        \A i, j \in 1..Len(results) :
            (/\ results[i].file.title = results[j].file.title
             /\ Rest(results[i].file.content, query.query)
                    = Rest(results[j].file.content, query.query)
             /\ Occurrences(results[i].file.content, query.query)
                    > Occurrences(results[j].file.content, query.query))
                => RatLeq(results[j].score, results[i].score)

(* C17 *)
\* the document set of the engine: the document held for each path
Documents(m) == [path \in MapKeys(m) |-> MapGet(m, path)]

\* the reference model's index(docs): the whole set is replaced, a later
\* document of a path wins
ReferenceIndex(docs) ==
    [path \in {docs[k].path : k \in 1..Len(docs)} |->
        docs[CHOOSE k \in 1..Len(docs) :
                 /\ docs[k].path = path
                 /\ \A l \in (k + 1)..Len(docs) : docs[l].path # path]]

\* C17: every index, update and remove of a KeywordSearchEngine changes its
\* document set as the reference model's does and resolves, and a search
\* changes nothing and returns only documents of the set.
C17_RefinesDocumentSet ==
    [][/\ op' = "keyword.index" =>
              Documents(keywordFiles') = ReferenceIndex(query'.files)
       /\ op' = "keyword.update" =>
              Documents(keywordFiles')
                  = [path \in DOMAIN Documents(keywordFiles) \cup {query'.file.path} |->
                        IF path = query'.file.path
                        THEN query'.file
                        ELSE Documents(keywordFiles)[path]]
       /\ op' = "keyword.remove" =>
              Documents(keywordFiles')
                  = [path \in DOMAIN Documents(keywordFiles) \ {query'.path} |->
                        Documents(keywordFiles)[path]]
       /\ op' = "keyword.search" =>
              /\ Documents(keywordFiles') = Documents(keywordFiles)
              /\ \A i \in 1..Len(results') :
                     /\ results'[i].file.path \in DOMAIN Documents(keywordFiles)
                     /\ results'[i].file = Documents(keywordFiles)[results'[i].file.path]
       /\ op' \in {"keyword.index", "keyword.update", "keyword.remove",
                   "keyword.search"} => ret' = NoError]_vars

\* index() was handed two different documents of one path, and the engine
\* holds the later of them and nothing else
C17_Witness ==
    /\ op = "keyword.index"
    /\ Len(query.files) = 2
    /\ query.files[1].path = query.files[2].path
    /\ query.files[1] # query.files[2]
    /\ MapValues(keywordFiles) = <<query.files[2]>>

(* C19 *)
\* the lines of the chunk's content
ChunkLines(c) == split(c.content)

\* the chunk holds the whole code block of the document, delimiters included
HoldsBlock(c) ==
    \E k \in 1..Len(ChunkLines(c)) :
        /\ k + Len(query.block) - 1 <= Len(ChunkLines(c))
        /\ SubSeq(ChunkLines(c), k, k + Len(query.block) - 1) = query.block

\* the chunk holds a line of the code block
HoldsBlockLine(c) ==
    \E k \in 1..Len(ChunkLines(c)) : ChunkLines(c)[k] \in {Fence, CodeLine}

\* C19: with preserveCodeBlocks, of a document whose only fenced code block
\* is smaller than maxChunkSize exactly one chunk holds the whole block, and
\* no chunk holds a part of it only, whatever overlapSize and the text around
\* the block are.
C19_CodeBlockKeptWhole ==
    (/\ op = "chunkDocument"
     /\ query.options.preserveCodeBlocks
     /\ query.block # NoBlock
     /\ estimateTokenCount(join(query.block)) < query.options.maxChunkSize) =>
        /\ Cardinality({k \in 1..Len(results) : HoldsBlock(results[k])}) = 1
        /\ \A k \in 1..Len(results) :
               HoldsBlockLine(results[k]) => HoldsBlock(results[k])

(* C20 *)
\* the text has nothing but spaces and line breaks
Blank(text) == \A i \in 1..Len(text) : text[i] \in {" ", Newline}

\* C20: chunkDocument returns no chunk for a content that is empty or has
\* blank and whitespace-only lines only, under every combination of options,
\* and never a chunk whose content is empty or whitespace only.
C20_NoBlankChunks ==
    op = "chunkDocument" =>
        /\ Blank(Content(query)) => results = <<>>
        /\ \A k \in 1..Len(results) : ~Blank(results[k].content)

(* C22 *)
\* C22: the chunks chunkDocument returns for a document, under every
\* combination of options, have the chunkIndex values 0, 1, ..., n - 1 in
\* list order, each has totalChunks n, the number of chunks returned, and
\* their ids differ pairwise.
C22_ChunkIndexContiguous ==
    op = "chunkDocument" =>
        /\ \A k \in 1..Len(results) :
               /\ results[k].chunkIndex = k - 1
               /\ results[k].metadata.totalChunks = Len(results)
        /\ \A k, l \in 1..Len(results) : results[k].id = results[l].id => k = l

\* a document was cut into three chunks or more
C22_Witness ==
    /\ op = "chunkDocument"
    /\ Len(results) >= 3

(* C23 *)
\* the lines of the document handed to the chunker
DocumentLines == split(Content(query))

\* C23: startLine and endLine of every chunk are the 1-based numbers of the
\* document lines the chunk starts and ends with, blank lines counted: they
\* lie within the document in that order, and the chunk's first and last
\* content lines are the document's lines of those numbers, in both modes.
C23_LineNumbers ==
    op = "chunkDocument" =>
        \A k \in 1..Len(results) :
            /\ 1 <= results[k].startLine
            /\ results[k].startLine <= results[k].endLine
            /\ results[k].endLine <= Len(DocumentLines)
            /\ Head(ChunkLines(results[k])) = DocumentLines[results[k].startLine]
            /\ ChunkLines(results[k])[Len(ChunkLines(results[k]))]
                   = DocumentLines[results[k].endLine]

(* C25 *)
\* the paragraphs of the document
DocumentParagraphs ==
    extractParagraphs(DocumentLines, query.options.preserveCodeBlocks)

\* the lines of the sub-chunks, one after the other
RECURSIVE subLines(_)
subLines(subs) == IF subs = <<>> THEN <<>> ELSE Head(subs).lines \o subLines(Tail(subs))

\* C25: in paragraph mode a paragraph whose estimated size is above
\* maxChunkSize comes out as sub-chunks of its lines: each sub-chunk is a
\* chunk of the result with nothing of the preceding chunk in it, its
\* estimated size is at most maxChunkSize, and the sub-chunks' lines are the
\* paragraph's lines, each once and in order.
C25_LargeParagraphSplit ==
    (op = "chunkDocument" /\ query.options.chunkByParagraph) =>
        \A p \in 1..Len(DocumentParagraphs) :
            LET paragraph == DocumentParagraphs[p]
                subs == splitLargeParagraph(paragraph, query.options.maxChunkSize)
            IN  estimateTokenCount(join(paragraph.content)) > query.options.maxChunkSize =>
                    /\ subLines(subs) = paragraph.content
                    /\ \A s \in 1..Len(subs) :
                           /\ \E k \in 1..Len(results) :
                                  /\ results[k].content = join(subs[s].lines)
                                  /\ results[k].startLine = subs[s].startLine + 1
                           /\ estimateTokenCount(join(subs[s].lines))
                                  <= query.options.maxChunkSize

(* C21 *)
\* the chunk ids recorded for the document at filePath
ChunkIds(filePath) ==
    {indexedDocuments[filePath].chunks[k].id :
        k \in 1..Len(indexedDocuments[filePath].chunks)}

\* C21: the chunk ids of two different documents of the corpus never
\* coincide, so whatever is indexed or removed, every chunk recorded for an
\* indexed document still has its vector entry in the store, under the
\* document's path.
C21_ChunkIdsUnique ==
    /\ \A p1, p2 \in DOMAIN indexedDocuments :
           p1 # p2 => ChunkIds(p1) \cap ChunkIds(p2) = {}
    /\ \A filePath \in DOMAIN indexedDocuments :
           \A id \in ChunkIds(filePath) :
               /\ MapHas(store, id)
               /\ MapGet(store, id).metadata.path = filePath

(* C24 *)
\* C24: update() attempts to index the document exactly when it has content
\* and is not recorded as indexed or is strictly newer than the record; a
\* document with content that is not newer than its record is skipped, and
\* the skip leaves the vector store, its file, the record of indexed
\* documents and the engine's copy of the document as they were.
C24_SkipsUnchanged ==
    [][(op' = "semantic.update" /\ hist'.log # <<>>) =>
           LET file == query'.file
               recorded == file.path \in DOMAIN indexedDocuments
               newer == recorded
                           /\ file.modified > indexedDocuments[file.path].lastModified
               outcome == hist'.log[1].outcome
           IN  /\ outcome \in {"indexed", "failed", "embedding failed"}
                      <=> (file.content # NoContent /\ (~recorded \/ newer))
               /\ (file.content # NoContent /\ recorded /\ ~newer) =>
                      /\ outcome = "unchanged"
                      /\ UNCHANGED <<store, disk, indexedDocuments, files>>]_vars

\* update() was handed a document with the timestamp of its record, other
\* content, and was skipped
C24_Witness ==
    /\ op = "semantic.update"
    /\ hist.log # <<>>
    /\ hist.log[1].outcome = "unchanged"
    /\ query.file.modified = indexedDocuments[query.file.path].lastModified
    /\ query.file # files[query.file.path]

(* C26 *)
\* the match is of an occurrence of the query at the position in the line:
\* its text is the line from at most 50 characters before the occurrence to
\* at most 50 after, and start is where the occurrence begins in the text
MatchAt(m, line, queryText, position) ==
    /\ m.text = SubSeq(line, Max(0, position - 50) + 1,
                       Min(Len(line), position + Len(queryText) + 50))
    /\ m.start = position - Max(0, position - 50)

\* C26: the matches of every document a keyword search returns are at most
\* five, in the order of their lines and of their positions in a line; the
\* line of a match is the 1-based number of a line of the document, its text
\* is that line cut to 50 characters around the occurrence, 0 <= start < end
\* <= the length of the text, end - start is the length of the query, and the
\* text from start to end is the query but for the case of its letters.
C26_MatchContexts ==
    op = "keyword.search" =>
        \A i \in 1..Len(results) :
            LET lines == split(results[i].file.content)
                matches == results[i].matches
            IN  /\ Len(matches) <= 5
                /\ \A k \in 1..Len(matches) :
                       LET m == matches[k]
                       IN  /\ m.line \in 1..Len(lines)
                           /\ 0 <= m.start
                           /\ m.start < m.end
                           /\ m.end <= Len(m.text)
                           /\ m.end - m.start = Len(query.query)
                           /\ toLowerCase(SubSeq(m.text, m.start + 1, m.end))
                                  = toLowerCase(query.query)
                           /\ \E position \in 0..Len(lines[m.line]) :
                                  MatchAt(m, lines[m.line], query.query, position)
                /\ \A k \in 1..Len(matches) - 1 :
                       \/ matches[k].line < matches[k + 1].line
                       \/ /\ matches[k].line = matches[k + 1].line
                          /\ \E p1, p2 \in 0..Len(lines[matches[k].line]) :
                                 /\ p1 < p2
                                 /\ MatchAt(matches[k], lines[matches[k].line],
                                            query.query, p1)
                                 /\ MatchAt(matches[k + 1], lines[matches[k].line],
                                            query.query, p2)

(* C29 *)
\* C29: when update() re-indexes a document that is already indexed and
\* embedBatch fails, no old vector has been removed: the vector store and
\* its file, the record of indexed documents and the engine's copy of the
\* document are as they were before the call.
C29_EmbedBeforeRemove ==
    [][(/\ op' = "semantic.update"
        /\ hist'.log # <<>>
        /\ hist'.log[1].outcome = "embedding failed"
        /\ query'.file.path \in DOMAIN indexedDocuments) =>
           UNCHANGED <<store, disk, indexedDocuments, files>>]_vars

\* embedBatch failed while update() re-indexed a document whose vectors the
\* store holds
C29_Witness ==
    /\ op = "semantic.update"
    /\ hist.log # <<>>
    /\ hist.log[1].outcome = "embedding failed"
    /\ query.file.path \in DOMAIN indexedDocuments
    /\ query.file.modified > indexedDocuments[query.file.path].lastModified
    /\ \E i \in 1..Len(store) : store[i].entry.metadata.path = query.file.path

----------------------------------------------------------------------------
(* C27 *)

\* C27: after an index, update or remove call of the hybrid engine that
\* resolved, the engine's own map, the keyword engine's map and the semantic
\* engine's map hold the same paths and the same document for each path
C27_MapsAgree ==
    (op \in {"hybrid.index", "hybrid.update", "hybrid.remove"} /\ ret = NoError)
        => /\ MapValues(hybridFiles) = MapValues(keywordFiles)
           /\ {hybridFiles[i].key : i \in 1..Len(hybridFiles)} = DOMAIN files
           /\ \A i \in 1..Len(hybridFiles) :
                  /\ hybridFiles[i].key \in DOMAIN files
                  /\ files[hybridFiles[i].key] = hybridFiles[i].entry

----------------------------------------------------------------------------
(* C28 *)

\* the keyword score of the document at path over the whole corpus, 0 when
\* the query does not occur in it
fullKeywordScore(path, queryText) ==
    LET all == searchFiles(MapValues(keywordFiles), queryText)
        at == {i \in 1..Len(all) : all[i].file.path = path}
    IN  IF at = {} THEN Rat(0, 1) ELSE all[CHOOSE i \in at : TRUE].score

\* the semantic score of the document at path over the whole corpus: the
\* highest cosine of its chunks, 0 when it has none
fullSemanticScore(path, queryText) ==
    LET found == MemSearch(store, embedding(queryText),
                           [topK |-> Len(store) + 1, minScore |-> NoMinScore,
                            filter |-> NoFilter])
        all == groupByFile(found.results, 1, <<>>)
        at == {i \in 1..Len(all) : all[i].file.path = path}
    IN  IF at = {} THEN Rat(0, 1) ELSE cosine(all[CHOOSE i \in at : TRUE].score)

fullCombinedScore(path, queryText) ==
    RatAdd(RatMul(fullKeywordScore(path, queryText), keywordWeight),
           RatMul(fullSemanticScore(path, queryText), semanticWeight))

\* C28: after a hybrid search whose two engines both answered, no document
\* of the corpus left out of the result has a combined score, from its full
\* keyword score and its full semantic score, strictly higher than that of
\* a returned document
C28_BestByCombinedScore ==
    (/\ op = "hybrid.search" /\ ret = NoError
     /\ query.query # <<>> /\ query.embedded)
        => \A k \in 1..Len(hybridFiles), i \in 1..Len(results) :
               LET path == hybridFiles[k].key
               IN  (\A j \in 1..Len(results) : results[j].file.path # path)
                       => ~RatLess(fullCombinedScore(results[i].file.path, query.query),
                                   fullCombinedScore(path, query.query))

----------------------------------------------------------------------------
(* C30 *)

InitLocalEmbedding == InitStore /\ ~autoSave

SpecProvider == InitLocalEmbedding /\ [][NextProvider]_vars

\* the promise a call waits for has not settled
Waiting(p) ==
    /\ calls[p].pc = "await"
    /\ calls[p].promise # NoPromise
    /\ promises[calls[p].promise] = "pending"

\* C30: the provider starts at most one load of the model between its
\* construction or disposal and the next disposal; every embed, embedBatch
\* and isReady call that waits for a load waits for that one load; isReady
\* never throws, and returns false when the load it waited for failed
C30_LoadsOnce ==
    /\ loads <= 1
    /\ Cardinality({id \in 1..Len(promises) : promises[id] = "pending"}) <= 1
    /\ \A p \in Callers :
           Waiting(p) => loads = 1 /\ calls[p].promise = initPromise
    /\ \A p \in Callers :
           (calls[p].kind = "isReady" /\ calls[p].pc = "done")
               => /\ calls[p].outcome \in {"true", "false"}
                  /\ (/\ calls[p].promise # NoPromise
                      /\ promises[calls[p].promise] = "rejected")
                         => calls[p].outcome = "false"

\* the load failed after an isReady call and an embed or embedBatch call
\* had both waited for it: isReady returned false
C30_Witness ==
    \E p, q \in Callers :
        /\ p # q
        /\ loads = 1
        /\ calls[p].kind = "isReady" /\ calls[p].pc = "done"
        /\ calls[p].promise # NoPromise
        /\ promises[calls[p].promise] = "rejected"
        /\ calls[p].outcome = "false"
        /\ calls[q].kind \in {"embed", "embedBatch"} /\ calls[q].pc = "done"
        /\ calls[q].outcome = "Failed to load local embedding model"
        /\ Len(promises) = 1

====
